---- MODULE Spec2Model ----
(***************************************************************************)
(* Quarto: the game-state model (pieces, board, win lines), the MCTS       *)
(* engine's move enumeration and move application, and the host            *)
(* application's turn bookkeeping.                                         *)
(*                                                                         *)
(* Representation of the TypeScript values:                                *)
(*   PieceAttributes  a record [height, color, shape, top]                 *)
(*   null piece       the record  null                                     *)
(*   board            a function  board[row][col], row, col in 0..3        *)
(*   Move.place       a tuple <<row, col>>;  place === null is  noPlace    *)
(*   winner           1 or 2;  winner === null is  noWinner                *)
(*   arrays           sequences (1-based), in the array's order            *)
(***************************************************************************)
EXTENDS Integers, Sequences, FiniteSets, TLC

null == [null |-> TRUE]
noPlace == <<>>
noWinner == 0

Idx == 0..3
Cells == Idx \X Idx

(***************************************************************************)
(* gameUtils: the piece catalog and piece identity.                        *)
(***************************************************************************)
heights == <<"tall", "short">>
colors == <<"light", "dark">>
shapes == <<"square", "round">>
tops == <<"solid", "hollow">>

\* the four nested loops, outermost first: height, color, shape, top
generateAllPieces ==
  [i \in 1..16 |->
     [height |-> heights[(((i - 1) \div 8) % 2) + 1],
      color  |-> colors[(((i - 1) \div 4) % 2) + 1],
      shape  |-> shapes[(((i - 1) \div 2) % 2) + 1],
      top    |-> tops[((i - 1) % 2) + 1]]]

\* the id string `${height}-${color}-${shape}-${top}`, as the tuple of its parts
getPieceId(piece) == <<piece.height, piece.color, piece.shape, piece.top>>

\* an equality of pieces that leaves the top out of the id
arePiecesEqual_WithoutTop(piece1, piece2) ==
  <<piece1.height, piece1.color, piece1.shape>> = <<piece2.height, piece2.color, piece2.shape>>

arePiecesEqual(piece1, piece2) == getPieceId(piece1) = getPieceId(piece2)

\* array.filter(p => !arePiecesEqual(p, given))
removePiece(pieces, given) ==
  SelectSeq(pieces, LAMBDA p : ~arePiecesEqual(p, given))

(***************************************************************************)
(* gameUtils: win detection.                                               *)
(***************************************************************************)
haveSameAttribute(pieces) ==
  /\ Len(pieces) = 4
  /\ \/ \A k \in 1..4 : pieces[k].height = pieces[1].height
     \/ \A k \in 1..4 : pieces[k].color = pieces[1].color
     \/ \A k \in 1..4 : pieces[k].shape = pieces[1].shape
     \/ \A k \in 1..4 : pieces[k].top = pieces[1].top

notNull(seq) == SelectSeq(seq, LAMBDA piece : piece # null)

rowPieces(board, row) == notNull([k \in 1..4 |-> board[row][k - 1]])
colPieces(board, col) == notNull([k \in 1..4 |-> board[k - 1][col]])
mainDiagonal(board) == notNull([k \in 1..4 |-> board[k - 1][k - 1]])
antiDiagonal(board) == notNull([k \in 1..4 |-> board[k - 1][3 - (k - 1)]])

lineWins(pieces) == Len(pieces) = 4 /\ haveSameAttribute(pieces)

\* checkWinCondition without the check of the anti-diagonal
checkWinCondition_NoAntiDiagonal(board) ==
  \/ \E row \in Idx : lineWins(rowPieces(board, row))
  \/ \E col \in Idx : lineWins(colPieces(board, col))
  \/ lineWins(mainDiagonal(board))

checkWinCondition(board) ==
  \/ \E row \in Idx : lineWins(rowPieces(board, row))
  \/ \E col \in Idx : lineWins(colPieces(board, col))
  \/ lineWins(mainDiagonal(board))
  \/ lineWins(antiDiagonal(board))

isBoardFull(board) == \A row \in Idx : \A col \in Idx : board[row][col] # null

\* getWinningLine returns null where no line wins
noLine == <<>>

\* the first index of 0..3 for which the loop's test holds
firstIdx(tested) == CHOOSE i \in tested : \A j \in tested : i <= j

\* getWinningLine with the scan of the columns before that of the rows
getWinningLine_ColumnsFirst(board) ==
  LET rows == {row \in Idx : lineWins(rowPieces(board, row))}
      cols == {col \in Idx : lineWins(colPieces(board, col))}
  IN IF cols # {}
     THEN [k \in 1..4 |-> <<k - 1, firstIdx(cols)>>]
     ELSE IF rows # {}
     THEN [k \in 1..4 |-> <<firstIdx(rows), k - 1>>]
     ELSE IF lineWins(mainDiagonal(board))
     THEN <<<<0, 0>>, <<1, 1>>, <<2, 2>>, <<3, 3>>>>
     ELSE IF lineWins(antiDiagonal(board))
     THEN <<<<0, 3>>, <<1, 2>>, <<2, 1>>, <<3, 0>>>>
     ELSE noLine

\* getWinningLine: the coordinates of the first line that wins, in the order of the
\* scan: rows, columns, main diagonal, anti-diagonal
getWinningLine(board) ==
  LET rows == {row \in Idx : lineWins(rowPieces(board, row))}
      cols == {col \in Idx : lineWins(colPieces(board, col))}
  IN IF rows # {}
     THEN [k \in 1..4 |-> <<firstIdx(rows), k - 1>>]
     ELSE IF cols # {}
     THEN [k \in 1..4 |-> <<k - 1, firstIdx(cols)>>]
     ELSE IF lineWins(mainDiagonal(board))
     THEN <<<<0, 0>>, <<1, 1>>, <<2, 2>>, <<3, 3>>>>
     ELSE IF lineWins(antiDiagonal(board))
     THEN <<<<0, 3>>, <<1, 2>>, <<2, 1>>, <<3, 0>>>>
     ELSE noLine

(***************************************************************************)
(* mcts: GameState, Move, legal moves, move application.                   *)
(***************************************************************************)
otherPlayer(player) == IF player = 1 THEN 2 ELSE 1

\* the empty cells in the scan order of the two nested loops (row, then col)
emptyCellsInOrder(board) ==
  SelectSeq([k \in 1..16 |-> <<(k - 1) \div 4, (k - 1) % 4>>],
            LAMBDA cell : board[cell[1]][cell[2]] = null)

\* getLegalMoves without the test that the cell is empty
MCTSNode_getLegalMoves_AllCells(state) ==
  LET cells == [k \in 1..16 |-> <<(k - 1) \div 4, (k - 1) % 4>>]
      n == Len(state.availablePieces)
  IN IF state.gameOver THEN <<>>
     ELSE IF state.stagedPiece # null
     THEN IF n > 0
          THEN [k \in 1..(Len(cells) * n) |->
                  [place |-> cells[((k - 1) \div n) + 1],
                   give  |-> state.availablePieces[((k - 1) % n) + 1]]]
          ELSE [k \in 1..Len(cells) |-> [place |-> cells[k], give |-> null]]
     ELSE [k \in 1..n |-> [place |-> noPlace, give |-> state.availablePieces[k]]]

\* MCTSNode.getLegalMoves
MCTSNode_getLegalMoves(state) ==
  LET cells == emptyCellsInOrder(state.board)
      n == Len(state.availablePieces)
  IN IF state.gameOver THEN <<>>
     ELSE IF state.stagedPiece # null
     THEN IF n > 0
          THEN [k \in 1..(Len(cells) * n) |->
                  [place |-> cells[((k - 1) \div n) + 1],
                   give  |-> state.availablePieces[((k - 1) % n) + 1]]]
          ELSE [k \in 1..Len(cells) |-> [place |-> cells[k], give |-> null]]
     ELSE [k \in 1..n |-> [place |-> noPlace, give |-> state.availablePieces[k]]]

\* a getLegalMoves whose outer loop runs over the columns: the same moves in
\* another order
MCTSSearch_getLegalMoves_ColumnsFirst(state) ==
  LET cells == SelectSeq([k \in 1..16 |-> <<(k - 1) % 4, (k - 1) \div 4>>],
                         LAMBDA cell : state.board[cell[1]][cell[2]] = null)
      n == Len(state.availablePieces)
  IN IF state.gameOver THEN <<>>
     ELSE IF state.stagedPiece # null
     THEN IF n > 0
          THEN [k \in 1..(Len(cells) * n) |->
                  [place |-> cells[((k - 1) \div n) + 1],
                   give  |-> state.availablePieces[((k - 1) % n) + 1]]]
          ELSE [k \in 1..Len(cells) |-> [place |-> cells[k], give |-> null]]
     ELSE [k \in 1..n |-> [place |-> noPlace, give |-> state.availablePieces[k]]]

\* MCTSSearch.getLegalMoves
MCTSSearch_getLegalMoves(state) ==
  LET cells == emptyCellsInOrder(state.board)
      n == Len(state.availablePieces)
  IN IF state.gameOver THEN <<>>
     ELSE IF state.stagedPiece # null
     THEN IF n > 0
          THEN [k \in 1..(Len(cells) * n) |->
                  [place |-> cells[((k - 1) \div n) + 1],
                   give  |-> state.availablePieces[((k - 1) % n) + 1]]]
          ELSE [k \in 1..Len(cells) |-> [place |-> cells[k], give |-> null]]
     ELSE [k \in 1..n |-> [place |-> noPlace, give |-> state.availablePieces[k]]]

\* the give of a move without the switch of the player
giveAndSwitch_KeepPlayer(newState, state, move) ==
  [newState EXCEPT !.stagedPiece = move.give,
                   !.availablePieces = removePiece(newState.availablePieces, move.give)]

\* the give of a move: stage the piece, drop it from the available pieces, switch
giveAndSwitch(newState, state, move) ==
  [newState EXCEPT !.stagedPiece = move.give,
                   !.availablePieces = removePiece(newState.availablePieces, move.give),
                   !.currentPlayer = otherPlayer(state.currentPlayer)]

\* applyMove that leaves the given piece among the available pieces
MCTSNode_applyMove_KeepGiven(state, move) ==
  IF move.place # noPlace /\ state.stagedPiece # null
  THEN LET placed == [state EXCEPT !.board[move.place[1]][move.place[2]] = state.stagedPiece,
                                   !.stagedPiece = null]
       IN IF checkWinCondition(placed.board)
          THEN [placed EXCEPT !.gameOver = TRUE, !.winner = state.currentPlayer]
          ELSE IF isBoardFull(placed.board)
          THEN [placed EXCEPT !.gameOver = TRUE, !.winner = noWinner]
          ELSE IF move.give # null
          THEN [placed EXCEPT !.stagedPiece = move.give,
                              !.currentPlayer = otherPlayer(state.currentPlayer)]
          ELSE placed
  ELSE IF move.place = noPlace /\ state.stagedPiece = null /\ move.give # null
  THEN giveAndSwitch(state, state, move)
  ELSE state

\* applyMove without the full-board branch
MCTSNode_applyMove_NoTie(state, move) ==
  IF move.place # noPlace /\ state.stagedPiece # null
  THEN LET placed == [state EXCEPT !.board[move.place[1]][move.place[2]] = state.stagedPiece,
                                   !.stagedPiece = null]
       IN IF checkWinCondition(placed.board)
          THEN [placed EXCEPT !.gameOver = TRUE, !.winner = state.currentPlayer]
          ELSE IF move.give # null
          THEN giveAndSwitch(placed, state, move)
          ELSE placed
  ELSE IF move.place = noPlace /\ state.stagedPiece = null /\ move.give # null
  THEN giveAndSwitch(state, state, move)
  ELSE state

\* applyMove that hands the piece over after a winning placement too
MCTSNode_applyMove_GivesAfterWin(state, move) ==
  IF move.place # noPlace /\ state.stagedPiece # null
  THEN LET placed == [state EXCEPT !.board[move.place[1]][move.place[2]] = state.stagedPiece,
                                   !.stagedPiece = null]
       IN IF checkWinCondition(placed.board)
          THEN IF move.give # null
               THEN giveAndSwitch([placed EXCEPT !.gameOver = TRUE,
                                                 !.winner = state.currentPlayer], state, move)
               ELSE [placed EXCEPT !.gameOver = TRUE, !.winner = state.currentPlayer]
          ELSE IF isBoardFull(placed.board)
          THEN [placed EXCEPT !.gameOver = TRUE, !.winner = noWinner]
          ELSE IF move.give # null
          THEN giveAndSwitch(placed, state, move)
          ELSE placed
  ELSE IF move.place = noPlace /\ state.stagedPiece = null /\ move.give # null
  THEN giveAndSwitch(state, state, move)
  ELSE state

\* MCTSNode.applyMove
MCTSNode_applyMove(state, move) ==
  IF move.place # noPlace /\ state.stagedPiece # null
  THEN LET placed == [state EXCEPT !.board[move.place[1]][move.place[2]] = state.stagedPiece,
                                   !.stagedPiece = null]
       IN IF checkWinCondition(placed.board)
          THEN [placed EXCEPT !.gameOver = TRUE, !.winner = state.currentPlayer]
          ELSE IF isBoardFull(placed.board)
          THEN [placed EXCEPT !.gameOver = TRUE, !.winner = noWinner]
          ELSE IF move.give # null
          THEN giveAndSwitch(placed, state, move)
          ELSE placed
  ELSE IF move.place = noPlace /\ state.stagedPiece = null /\ move.give # null
  THEN giveAndSwitch(state, state, move)
  ELSE state

\* MCTSSearch.cloneState: a copy, equal to the original
cloneState(state) ==
  [board |-> [row \in Idx |-> [col \in Idx |-> state.board[row][col]]],
   availablePieces |-> [k \in 1..Len(state.availablePieces) |-> state.availablePieces[k]],
   stagedPiece |-> state.stagedPiece,
   currentPlayer |-> state.currentPlayer,
   gameOver |-> state.gameOver,
   winner |-> state.winner]

\* MCTSSearch.applyMoveToState
applyMoveToState(state, move) ==
  LET newState == cloneState(state)
  IN IF move.place # noPlace /\ state.stagedPiece # null
     THEN LET placed == [newState EXCEPT !.board[move.place[1]][move.place[2]] = state.stagedPiece,
                                         !.stagedPiece = null]
          IN IF checkWinCondition(placed.board)
             THEN [placed EXCEPT !.gameOver = TRUE, !.winner = state.currentPlayer]
             ELSE IF isBoardFull(placed.board)
             THEN [placed EXCEPT !.gameOver = TRUE, !.winner = noWinner]
             ELSE IF move.give # null
             THEN giveAndSwitch(placed, state, move)
             ELSE placed
     ELSE IF move.place = noPlace /\ state.stagedPiece = null /\ move.give # null
     THEN giveAndSwitch(newState, state, move)
     ELSE newState

(***************************************************************************)
(* mcts: the search tree.  The tree is the sequence of its nodes in order  *)
(* of creation, the root first; a node names its parent and its children   *)
(* by their index in the tree, 0 for a null parent.                        *)
(***************************************************************************)
\* the results of a playout, in halves of a point
Win == 2
Tie == 1
Loss == 0

\* new MCTSNode(state, move, parent)
MCTSNode(state, move, parent) ==
  [state |-> state, move |-> move, parent |-> parent, children |-> <<>>,
   visits |-> 0, wins |-> 0, untriedMoves |-> MCTSNode_getLegalMoves(state)]

\* a node that never counts as fully expanded
isFullyExpanded_Never(node) == Len(node.untriedMoves) < 0

isFullyExpanded(node) == Len(node.untriedMoves) = 0

isTerminal(node) == node.state.gameOver

\* Math.log(n) in units of 1e-8, for the visit counts 1..12
Math_log(n) ==
  <<0, 69314718, 109861228, 138629436, 160943791, 179175946,
    194591014, 207944154, 219722457, 230258509, 239789527, 248490664>>[n]

RECURSIVE sqrtBetween(_, _, _)
sqrtBetween(x, low, high) ==
  IF low >= high THEN low
  ELSE LET mid == (low + high + 1) \div 2
       IN IF mid * mid <= x THEN sqrtBetween(x, mid, high)
                            ELSE sqrtBetween(x, low, mid - 1)

\* Math.sqrt of a number in units of 1e-8, in units of 1e-4
Math_sqrt(x) == sqrtBetween(x, 0, 46340)

\* the UCB1 value of an unvisited node: above every finite value
Infinity == 2147483647

\* Math.sqrt(2), in units of 1e-4
sqrt2 == 14142

\* MCTSNode.ucb1 of node n of the tree, in units of 1e-8
ucb1(nodes, n, explorationConstant) ==
  IF nodes[n].visits = 0
  THEN Infinity
  ELSE LET exploitation == (nodes[n].wins * 50000000) \div nodes[n].visits
           exploration ==
             explorationConstant
               * Math_sqrt(Math_log(nodes[nodes[n].parent].visits) \div nodes[n].visits)
       IN exploitation + exploration

\* children.reduce((best, child) => child.ucb1(c) > best.ucb1(c) ? child : best)
RECURSIVE reduceByUcb1(_, _, _, _, _)
reduceByUcb1(nodes, children, k, best, explorationConstant) ==
  IF k > Len(children) THEN best
  ELSE reduceByUcb1(nodes, children, k + 1,
                    IF ucb1(nodes, children[k], explorationConstant)
                         > ucb1(nodes, best, explorationConstant)
                    THEN children[k] ELSE best,
                    explorationConstant)

\* MCTSNode.selectBestChild of node n; 0 when reduce throws on an empty array
selectBestChild(nodes, n, explorationConstant) ==
  IF nodes[n].children = <<>> THEN 0
  ELSE reduceByUcb1(nodes, nodes[n].children, 2, nodes[n].children[1], explorationConstant)

\* MCTSSearch.select from node n; 0 when selectBestChild throws
RECURSIVE select(_, _, _)
select(nodes, n, explorationConstant) ==
  IF n # 0 /\ ~isTerminal(nodes[n]) /\ isFullyExpanded(nodes[n])
  THEN select(nodes, selectBestChild(nodes, n, explorationConstant), explorationConstant)
  ELSE n

\* the errors a call of search can raise: expand's own Error, and the TypeError of
\* Array.prototype.reduce on an empty array without an initial value
expandError == "Cannot expand fully expanded node"

reduceError == "Reduce of empty array with no initial value"

\* what expand yields where it throws: no tree
cannotExpand == <<>>

\* a call of search that goes on with the tree an earlier call has built
rootOfSearch_KeptTree(nodes, initialState) ==
  IF nodes = <<>> THEN <<MCTSNode(initialState, null, 0)>> ELSE nodes

\* const root = new MCTSNode(initialState): every call of search starts a new tree,
\* whatever tree an earlier call has built
rootOfSearch(nodes, initialState) == <<MCTSNode(initialState, null, 0)>>

\* an expand that reads the last untried move and leaves it in untriedMoves
expand_KeepUntried(nodes, n) ==
  LET untried == nodes[n].untriedMoves
      popped == untried[Len(untried)]
      childNode == MCTSNode(MCTSNode_applyMove(nodes[n].state, popped), popped, n)
  IN IF Len(untried) = 0
     THEN cannotExpand
     ELSE Append([nodes EXCEPT ![n].children = Append(@, Len(nodes) + 1)], childNode)

\* MCTSNode.expand of node n: the tree with the new child appended; it throws where
\* the node has no untried move
expand(nodes, n) ==
  LET untried == nodes[n].untriedMoves
      popped == untried[Len(untried)]
      childNode == MCTSNode(MCTSNode_applyMove(nodes[n].state, popped), popped, n)
  IN IF Len(untried) = 0
     THEN cannotExpand
     ELSE Append([nodes EXCEPT ![n].untriedMoves = SubSeq(untried, 1, Len(untried) - 1),
                               ![n].children = Append(@, Len(nodes) + 1)],
                 childNode)

\* a backpropagation that counts at the node only and does not go up to the parent
backpropagate_NodeOnly(nodes, n, result) ==
  [nodes EXCEPT ![n].visits = @ + 1, ![n].wins = @ + result]

\* a backpropagation that counts at the root only, whatever node was played out
backpropagate_RootOnly(nodes, n, result) ==
  [nodes EXCEPT ![1].visits = @ + 1, ![1].wins = @ + result]

\* MCTSNode.backpropagate from node n up to the root
RECURSIVE backpropagate(_, _, _)
backpropagate(nodes, n, result) ==
  LET counted == [nodes EXCEPT ![n].visits = @ + 1, ![n].wins = @ + result]
  IN IF nodes[n].parent # 0 THEN backpropagate(counted, nodes[n].parent, result)
     ELSE counted

\* MCTSSearch.getDepth of node n
RECURSIVE getDepth(_, _)
getDepth(nodes, n) == IF nodes[n].parent # 0 THEN 1 + getDepth(nodes, nodes[n].parent) ELSE 0

\* the expansion step without the test of the depth
expansion_AnyDepth(nodes, n, config) ==
  IF /\ ~isTerminal(nodes[n])
     /\ nodes[n].visits > 0
     /\ ~isFullyExpanded(nodes[n])
  THEN [nodes |-> expand(nodes, n), node |-> Len(nodes) + 1]
  ELSE [nodes |-> nodes, node |-> n]

\* the expansion step of search: the tree and the node to play out from
expansion(nodes, n, config) ==
  IF /\ ~isTerminal(nodes[n])
     /\ nodes[n].visits > 0
     /\ getDepth(nodes, n) < config.maxDepth
     /\ ~isFullyExpanded(nodes[n])
  THEN [nodes |-> expand(nodes, n), node |-> Len(nodes) + 1]
  ELSE [nodes |-> nodes, node |-> n]

\* the reduce with the comparison of the visits turned round
RECURSIVE reduceByVisits_Fewest(_, _, _, _)
reduceByVisits_Fewest(nodes, children, k, best) ==
  IF k > Len(children) THEN best
  ELSE reduceByVisits_Fewest(nodes, children, k + 1,
                      IF nodes[children[k]].visits < nodes[best].visits
                      THEN children[k] ELSE best)

\* root.children.reduce((best, child) => child.visits > best.visits ? child : best)
RECURSIVE reduceByVisits(_, _, _, _)
reduceByVisits(nodes, children, k, best) ==
  IF k > Len(children) THEN best
  ELSE reduceByVisits(nodes, children, k + 1,
                      IF nodes[children[k]].visits > nodes[best].visits
                      THEN children[k] ELSE best)

\* the best child of the root at the end of search, the children not empty
bestChild(nodes) == reduceByVisits(nodes, nodes[1].children, 2, nodes[1].children[1])

\* the end of a playout: the result from simulate's return statements
score(currentState, state) ==
  IF currentState.winner = state.currentPlayer THEN Win
  ELSE IF currentState.winner = noWinner THEN Tie
  ELSE Loss

abs(x) == IF x < 0 THEN -x ELSE x

\* twice the centerDistance of sortMovesCenterFirst
centerDistance(pos) == abs(2 * pos[1] - 3) + abs(2 * pos[2] - 3)

isCorner(pos) == (pos[1] = 0 \/ pos[1] = 3) /\ (pos[2] = 0 \/ pos[2] = 3)

\* MCTSSearch.isPieceDangerous
isPieceDangerous(piece, state) ==
  \E row \in Idx, col \in Idx :
    /\ state.board[row][col] = null
    /\ checkWinCondition([state.board EXCEPT ![row][col] = piece])

\* the rank the comparator of a strategy sorts a move by; the moves of one state
\* all place or all do not, and all give or all do not
sortKey(m, state, moveSortStrategy) ==
  CASE moveSortStrategy = "center_first" ->
         IF m.place # noPlace THEN centerDistance(m.place) ELSE 0
    [] moveSortStrategy = "corners_first" ->
         IF m.place # noPlace /\ ~isCorner(m.place) THEN 1 ELSE 0
    [] moveSortStrategy = "defensive" ->
         IF m.give # null /\ isPieceDangerous(m.give, state) THEN 1 ELSE 0
    [] OTHER -> 0

\* Array.prototype.sort is stable: the moves of rank k and above, in rank order
RECURSIVE sortedFrom(_, _, _)
sortedFrom(moves, keys, k) ==
  IF k > 6 THEN <<>>
  ELSE LET ranked == SelectSeq([i \in 1..Len(moves) |-> i], LAMBDA i : keys[i] = k)
       IN [j \in 1..Len(ranked) |-> moves[ranked[j]]] \o sortedFrom(moves, keys, k + 1)

\* MCTSSearch.sortMoves for the sorting strategies
sortMoves(moves, state, moveSortStrategy) ==
  sortedFrom(moves, [i \in 1..Len(moves) |-> sortKey(moves[i], state, moveSortStrategy)], 0)

\* the moves simulate can pick: sortedMoves[floor(Math.random() * min(3, length))];
\* shuffleArray of the random strategy can bring any move to the front
playoutMoves(moves, state, moveSortStrategy) ==
  IF moveSortStrategy = "random"
  THEN {moves[k] : k \in 1..Len(moves)}
  ELSE LET sortedMoves == sortMoves(moves, state, moveSortStrategy)
       IN {sortedMoves[k] : k \in 1..(IF Len(sortedMoves) < 3 THEN Len(sortedMoves) ELSE 3)}

(***************************************************************************)
(* ai: the basic (heuristic) AI.  Every Math.random() call is a draw       *)
(* r in Random, standing for the value r / RandomSteps of [0, 1).          *)
(***************************************************************************)
RandomSteps == 16
Random == 0..(RandomSteps - 1)

\* Math.random() < num / den
randomBelow(r, num, den) == r * den < num * RandomSteps

\* array[Math.floor(Math.random() * array.length)]
getRandomElement(array, r) == array[((r * Len(array)) \div RandomSteps) + 1]

\* the array with the elements at i and j exchanged
swapped(array, i, j) == [array EXCEPT ![i] = array[j], ![j] = array[i]]

\* the loop of MCTSSearch.shuffleArray from index i (counted from 0) down to 1,
\* one draw of rs per pass: j = Math.floor(Math.random() * (i + 1))
RECURSIVE shuffleFrom(_, _, _)
shuffleFrom(shuffled, rs, i) ==
  IF i > 0
  THEN shuffleFrom(swapped(shuffled, i + 1, ((Head(rs) * (i + 1)) \div RandomSteps) + 1),
                   Tail(rs), i - 1)
  ELSE shuffled

\* MCTSSearch.shuffleArray on the draws rs
shuffleArray(array, rs) == shuffleFrom(array, rs, Len(array) - 1)

\* the array objects a call of sortMoves works on: the caller's moves, the array
\* that [...moves] creates, which sorted names, and the array that [...array]
\* creates in shuffleArray, which shuffled names
movesArray == "moves"

\* a spread that hands back the array it is given instead of a new one
spread_SameArray(object, created) == object

\* [...object]: a new array with the same elements
spread(object, created) == created

\* a call of MCTSSearch.sortMoves on the draws rs: the array it returns and the
\* caller's array after the call.  Array.prototype.sort sorts the array it is called
\* on in place and returns it; shuffleArray swaps in its own copy and returns that
sortMovesCall(moves, state, moveSortStrategy, rs) ==
  LET arrays == [object \in {movesArray, "sorted", "shuffled"} |-> moves]
      sorted == spread(movesArray, "sorted")
  IN IF moveSortStrategy = "random"
     THEN LET shuffled == spread(sorted, "shuffled")
              after == [arrays EXCEPT ![shuffled] = shuffleArray(@, rs)]
          IN [returned |-> after[shuffled], moves |-> after[movesArray]]
     ELSE LET after == [arrays EXCEPT ![sorted] = sortMoves(@, state, moveSortStrategy)]
          IN [returned |-> after[sorted], moves |-> after[movesArray]]

\* the number of Math.random() calls of one pass of simulate's loop over n moves
drawsOfPlayoutMove(n, moveSortStrategy) ==
  IF moveSortStrategy = "random" THEN n ELSE 1

\* one pass of simulate's loop on the draws rs: sortMoves, then
\* sortedMoves[Math.floor(Math.random() * Math.min(3, sortedMoves.length))]
drawnMove(moves, state, moveSortStrategy, rs) ==
  LET sortedMoves == sortMovesCall(moves, state, moveSortStrategy, rs).returned
      r == rs[Len(rs)]
      among == IF Len(sortedMoves) < 3 THEN Len(sortedMoves) ELSE 3
  IN sortedMoves[((r * among) \div RandomSteps) + 1]

\* in hundredths
getRandomChance(difficulty) ==
  CASE difficulty = "easy" -> 60
    [] difficulty = "normal" -> 30
    [] difficulty = "hard" -> 0
    [] difficulty = "nightmare" -> 0
    [] OTHER -> 30

\* getMinSafePieces with no threshold at any difficulty
getMinSafePieces_None(difficulty) == 0

getMinSafePieces(difficulty) ==
  CASE difficulty = "easy" -> 2
    [] difficulty = "normal" -> 2
    [] difficulty = "hard" -> 3
    [] difficulty = "nightmare" -> 8
    [] OTHER -> 2

\* const { difficulty = 'normal' } = input
difficultyOf(input) ==
  IF input.difficulty = "undefined" THEN "normal" ELSE input.difficulty

\* getEmptyPositions without the test that the cell is empty
getEmptyPositions_AllCells(board) ==
  [k \in 1..16 |-> [row |-> (k - 1) \div 4, col |-> (k - 1) % 4]]

getEmptyPositions(board) ==
  SelectSeq([k \in 1..16 |-> [row |-> (k - 1) \div 4, col |-> (k - 1) % 4]],
            LAMBDA position : board[position.row][position.col] = null)

\* testBoard = board.map(row => [...row]); testBoard[row][col] = piece
testBoardWith(board, position, piece) ==
  [board EXCEPT ![position.row][position.col] = piece]

\* a test that finds no piece dangerous
canPieceLeadToWin_Never(piece, board) == FALSE

canPieceLeadToWin(piece, board) ==
  LET emptyPositions == getEmptyPositions(board)
  IN \E k \in 1..Len(emptyPositions) :
       checkWinCondition(testBoardWith(board, emptyPositions[k], piece))

\* the empty positions where placing the piece wins, in scan order
winningPositions(board, pieceToPlace) ==
  SelectSeq(getEmptyPositions(board),
            LAMBDA position :
              checkWinCondition(testBoardWith(board, position, pieceToPlace)))

\* safePiecesCount of every empty position, in scan order
safePiecesCounts(input) ==
  LET emptyPositions == getEmptyPositions(input.board)
  IN [k \in 1..Len(emptyPositions) |->
        Len(SelectSeq(input.availablePieces,
                      LAMBDA piece :
                        ~canPieceLeadToWin(piece,
                           testBoardWith(input.board, emptyPositions[k], input.pieceToPlace))))]

maxOf(counts) == CHOOSE m \in {counts[k] : k \in 1..Len(counts)} :
                   \A k \in 1..Len(counts) : counts[k] <= m

\* the strategic step's candidates: positionsAboveThreshold, or bestPositions if empty
strategicPositions(input) ==
  LET emptyPositions == getEmptyPositions(input.board)
      counts == safePiecesCounts(input)
      idx == [k \in 1..Len(emptyPositions) |-> k]
      above == SelectSeq(idx, LAMBDA k : counts[k] >= getMinSafePieces(difficultyOf(input)))
      best == SelectSeq(idx, LAMBDA k : counts[k] = maxOf(counts))
      chosen == IF Len(above) > 0 THEN above ELSE best
  IN [j \in 1..Len(chosen) |-> emptyPositions[chosen[j]]]

\* makeAIPlacement returning the last winning position found instead of the first
choosePlacement_LastWin(input, emptyPositions, winning, strategic, rSkip, rRandom, rPick) ==
  LET difficulty == difficultyOf(input)
      shouldSkipWinCheck == difficulty = "easy" /\ randomBelow(rSkip, 1, 10)
  IN IF input.pieceToPlace = null THEN null
     ELSE IF Len(emptyPositions) = 0 THEN null
     ELSE IF ~shouldSkipWinCheck /\ Len(winning) > 0 THEN winning[Len(winning)]
     ELSE IF randomBelow(rRandom, getRandomChance(difficulty), 100)
     THEN getRandomElement(emptyPositions, rPick)
     ELSE getRandomElement(strategic, rPick)

\* makeAIPlacement, given its empty, winning and strategic positions
choosePlacement(input, emptyPositions, winning, strategic, rSkip, rRandom, rPick) ==
  LET difficulty == difficultyOf(input)
      shouldSkipWinCheck == difficulty = "easy" /\ randomBelow(rSkip, 1, 10)
  IN IF input.pieceToPlace = null THEN null
     ELSE IF Len(emptyPositions) = 0 THEN null
     ELSE IF ~shouldSkipWinCheck /\ Len(winning) > 0 THEN winning[1]
     ELSE IF randomBelow(rRandom, getRandomChance(difficulty), 100)
     THEN getRandomElement(emptyPositions, rPick)
     ELSE getRandomElement(strategic, rPick)

makeAIPlacement(input, rSkip, rRandom, rPick) ==
  choosePlacement(input, getEmptyPositions(input.board),
                  winningPositions(input.board, input.pieceToPlace),
                  strategicPositions(input), rSkip, rRandom, rPick)

\* safePieces without the filter
safePieces_All(input) == input.availablePieces

safePieces(input) ==
  SelectSeq(input.availablePieces,
            LAMBDA piece : ~canPieceLeadToWin(piece, input.board))

\* makeAIPieceSelection, given its safe pieces
chooseGive(input, safe, rRandom, rPick) ==
  IF Len(input.availablePieces) = 0 THEN null
  ELSE IF randomBelow(rRandom, getRandomChance(difficultyOf(input)), 100)
  THEN getRandomElement(input.availablePieces, rPick)
  ELSE IF Len(safe) > 0 THEN getRandomElement(safe, rPick)
  ELSE getRandomElement(input.availablePieces, rPick)

makeAIPieceSelection(input, rRandom, rPick) ==
  chooseGive(input, safePieces(input), rRandom, rPick)

\* makeAIMove; rnd = <<rSkip, rRandom, rPick, rRandom, rPick>>, the draws of the
\* placement and then of the piece selection
makeAIMove(input, rnd) ==
  LET placement == makeAIPlacement(input, rnd[1], rnd[2], rnd[3])
  IN IF placement # null /\ input.pieceToPlace # null
     THEN LET testBoard == testBoardWith(input.board, placement, input.pieceToPlace)
          IN IF checkWinCondition(testBoard)
             THEN [placement |-> placement, pieceToGive |-> null]
             ELSE [placement |-> placement,
                   pieceToGive |->
                     makeAIPieceSelection([input EXCEPT !.board = testBoard], rnd[4], rnd[5])]
     ELSE [placement |-> placement,
           pieceToGive |-> makeAIPieceSelection(input, rnd[4], rnd[5])]

\* the draws makeAIPlacement takes: the skip draw is taken at 'easy' only
skipDraws(input) == IF difficultyOf(input) = "easy" THEN Random ELSE {0}

\* every move makeAIMove can return for the input, over all draws
makeAIMoveResults(input) ==
  LET emptyPositions == getEmptyPositions(input.board)
      winning == winningPositions(input.board, input.pieceToPlace)
      strategic == strategicPositions(input)
      placements == {choosePlacement(input, emptyPositions, winning, strategic, rS, rR, rP) :
                       rS \in skipDraws(input), rR \in Random, rP \in Random}
      gives(in) == LET safe == safePieces(in)
                   IN {chooseGive(in, safe, rR, rP) : rR \in Random, rP \in Random}
  IN UNION {
       IF placement # null /\ input.pieceToPlace # null
       THEN LET testBoard == testBoardWith(input.board, placement, input.pieceToPlace)
            IN IF checkWinCondition(testBoard)
               THEN {[placement |-> placement, pieceToGive |-> null]}
               ELSE {[placement |-> placement, pieceToGive |-> g] :
                       g \in gives([input EXCEPT !.board = testBoard])}
       ELSE {[placement |-> placement, pieceToGive |-> g] : g \in gives(input)}
       : placement \in placements}

\* the branch makeAIPlacement returns from: "none" (no piece or no empty cell),
\* "win", "random" or "strategic"
placementBranch(input, emptyPositions, winning, rSkip, rRandom) ==
  LET difficulty == difficultyOf(input)
      shouldSkipWinCheck == difficulty = "easy" /\ randomBelow(rSkip, 1, 10)
  IN IF input.pieceToPlace = null THEN "none"
     ELSE IF Len(emptyPositions) = 0 THEN "none"
     ELSE IF ~shouldSkipWinCheck /\ Len(winning) > 0 THEN "win"
     ELSE IF randomBelow(rRandom, getRandomChance(difficulty), 100) THEN "random"
     ELSE "strategic"

\* every result of makeAIPlacement for the input, with the branch it comes from
makeAIPlacementResults(input) ==
  LET emptyPositions == getEmptyPositions(input.board)
      winning == winningPositions(input.board, input.pieceToPlace)
      strategic == strategicPositions(input)
  IN {[placement |-> choosePlacement(input, emptyPositions, winning, strategic, rS, rR, rP),
       branch |-> placementBranch(input, emptyPositions, winning, rS, rR)] :
        rS \in skipDraws(input), rR \in Random, rP \in Random}

\* the branch makeAIPieceSelection returns from: "none" (no piece available),
\* "random", "safe" or "dangerous" (no safe piece)
selectionBranch(input, safe, rRandom) ==
  IF Len(input.availablePieces) = 0 THEN "none"
  ELSE IF randomBelow(rRandom, getRandomChance(difficultyOf(input)), 100) THEN "random"
  ELSE IF Len(safe) > 0 THEN "safe"
  ELSE "dangerous"

\* every result of makeAIPieceSelection for the input, with the branch it comes from
makeAIPieceSelectionResults(input) ==
  LET safe == safePieces(input)
  IN {[pieceToGive |-> chooseGive(input, safe, rR, rP),
       branch |-> selectionBranch(input, safe, rR)] : rR \in Random, rP \in Random}

\* the input makeAIMove hands to makeAIPieceSelection after the placement
updatedInput(input, placement) ==
  IF placement # null /\ input.pieceToPlace # null
  THEN [input EXCEPT !.board = testBoardWith(input.board, placement, input.pieceToPlace)]
  ELSE input

\* makeAIMove returns without a piece selection: the placement wins
winsByPlacement(input, placement) ==
  /\ placement # null
  /\ input.pieceToPlace # null
  /\ checkWinCondition(updatedInput(input, placement).board)

\* the AIInput of a game in the position pos
inputOf(pos, difficulty) ==
  [board |-> pos.board, pieceToPlace |-> pos.stagedPiece,
   availablePieces |-> pos.availablePieces, difficulty |-> difficulty]

\* what a call of the AI has returned, and from where
\* the array objects makeAIMove works on: the caller's board, and the array that
\* board.map(row => [...row]) creates, which testBoard names
callerBoard == "board"

\* a map that hands back the array it is called on instead of a new one
mapRows_SameArray(object) == object

\* board.map(row => [...row]): a new array with new rows
mapRows(object) == "testBoard"

\* testBoard[placement.row][placement.col] = pieceToPlace, written to the array the
\* reference names
writeCell(arrays, reference, position, piece) ==
  [arrays EXCEPT ![reference] = testBoardWith(@, position, piece)]

\* the caller's board after makeAIMove: its only write goes to testBoard
boardAfterMakeAIMove(input, placement) ==
  LET testBoard == mapRows(callerBoard)
      arrays == [object \in {callerBoard, testBoard} |-> input.board]
  IN IF placement # null /\ input.pieceToPlace # null
     THEN writeCell(arrays, testBoard, placement, input.pieceToPlace)[callerBoard]
     ELSE input.board

\* a call: its input, what it returned, and the caller's board after it
callOf(input, name, placed, given, selected) ==
  [input |-> input, call |-> name,
   placement |-> placed.placement, placementBranch |-> placed.branch,
   pieceToGive |-> given.pieceToGive, selectionBranch |-> given.branch,
   selectionInput |-> selected,
   boardAfter |-> IF name = "makeAIMove"
                  THEN boardAfterMakeAIMove(input, placed.placement)
                  ELSE input.board]

notPlaced == [placement |-> null, branch |-> "not called"]

notSelected == [pieceToGive |-> null, branch |-> "not called"]

noCall(input) == callOf(input, "none", notPlaced, notSelected, input)

(***************************************************************************)
(* App: the host application's state and handlers.  app is the record of   *)
(* the component's state: board, availablePieces, stagedPiece,             *)
(* currentPlayer, gamePhase, gameState, winner, player1AI, player2AI,      *)
(* aiType.                                                                 *)
(***************************************************************************)
\* the win-check effect, run when board, currentPlayer or gamePhase changed
winCheckEffect(app) ==
  IF checkWinCondition(app.board)
  THEN [app EXCEPT !.gameState = "won",
                   !.winner = IF app.gamePhase = "place"
                              THEN otherPlayer(app.currentPlayer)
                              ELSE app.currentPlayer,
                   !.winningLine = getWinningLine(app.board)]
  ELSE IF isBoardFull(app.board)
  THEN [app EXCEPT !.gameState = "tie"]
  ELSE app

\* a handler's state updates, then the effects of the render they cause
rendered(old, new) ==
  IF <<new.board, new.currentPlayer, new.gamePhase>>
       # <<old.board, old.currentPlayer, old.gamePhase>>
  THEN winCheckEffect(new)
  ELSE new

\* the guard of handlePieceSelect without the test that the game is still played
canHandlePieceSelect_AfterGameOver(app) == app.gamePhase = "give"

canHandlePieceSelect(app) == app.gamePhase = "give" /\ app.gameState = "playing"

handlePieceSelect(app, piece) ==
  IF canHandlePieceSelect(app)
  THEN [app EXCEPT !.stagedPiece = piece,
                   !.availablePieces = removePiece(app.availablePieces, piece),
                   !.currentPlayer = otherPlayer(app.currentPlayer),
                   !.gamePhase = "place"]
  ELSE app

\* the guard of handleCellClick without the test that the cell is empty
canHandleCellClick_AnyCell(app, row, col) ==
  /\ app.gamePhase = "place"
  /\ app.stagedPiece # null
  /\ app.gameState = "playing"

\* the guard of handleCellClick
canHandleCellClick(app, row, col) ==
  /\ app.board[row][col] = null
  /\ app.gamePhase = "place"
  /\ app.stagedPiece # null
  /\ app.gameState = "playing"

handleCellClick(app, row, col) ==
  IF canHandleCellClick(app, row, col)
  THEN [app EXCEPT !.board[row][col] = app.stagedPiece,
                   !.stagedPiece = null,
                   !.gamePhase = "give"]
  ELSE app

startNewGame(app) ==
  [app EXCEPT !.board = [row \in Idx |-> [col \in Idx |-> null]],
              !.availablePieces = generateAllPieces,
              !.stagedPiece = null,
              !.currentPlayer = 1,
              !.gamePhase = "give",
              !.gameState = "playing",
              !.winner = noWinner,
              !.winningLine = noLine]

isCurrentPlayerAI(app) ==
  \/ app.currentPlayer = 1 /\ app.player1AI
  \/ app.currentPlayer = 2 /\ app.player2AI

\* executeAIMove's early returns
canExecuteAIMove(app) == app.gameState = "playing" /\ isCurrentPlayerAI(app)

\* applyAIMove: step 1 places the staged piece, step 2 gives
applyAIMove(app, aiMove) ==
  LET placed ==
        IF aiMove.placement # null /\ app.stagedPiece # null
        THEN [app EXCEPT !.board[aiMove.placement.row][aiMove.placement.col] = app.stagedPiece,
                         !.stagedPiece = null]
        ELSE app
  IN IF aiMove.pieceToGive # null
     THEN [placed EXCEPT !.stagedPiece = aiMove.pieceToGive,
                         !.availablePieces = removePiece(app.availablePieces, aiMove.pieceToGive),
                         !.currentPlayer = otherPlayer(app.currentPlayer),
                         !.gamePhase = "place"]
     ELSE placed

\* executeBasicAIMove's input: no difficulty is passed
basicAIInput(app) ==
  [board |-> app.board, pieceToPlace |-> app.stagedPiece,
   availablePieces |-> app.availablePieces, difficulty |-> "undefined"]

\* createGameStateFromApp, as executeMCTSMove calls it
createGameStateFromApp(app) ==
  [board |-> app.board,
   availablePieces |-> app.availablePieces,
   stagedPiece |-> app.stagedPiece,
   currentPlayer |-> app.currentPlayer,
   gameOver |-> app.gameState # "playing",
   winner |-> app.winner]

\* executeMCTSMove's conversion of the engine's Move
convertMCTSMove(bestMove) ==
  [placement |-> IF bestMove.place # noPlace
                 THEN [row |-> bestMove.place[1], col |-> bestMove.place[2]]
                 ELSE null,
   pieceToGive |-> bestMove.give]

(***************************************************************************)
(* Positions the games start from: the start of a game, and late-game      *)
(* positions of games in progress (no winning line, board not full, every  *)
(* piece on the board, staged or available; the available pieces in the    *)
(* catalog's order, as the host's filter leaves them).                      *)
(***************************************************************************)
\* a board from four rows of catalog numbers 1..16, 0 for an empty cell
boardOf(rows) ==
  [row \in Idx |-> [col \in Idx |->
     IF rows[row + 1][col + 1] = 0 THEN null
     ELSE generateAllPieces[rows[row + 1][col + 1]]]]

onBoard(board) == {board[cell[1]][cell[2]] : cell \in Cells} \ {null}

piecesOnBoard(board) == Cardinality({cell \in Cells : board[cell[1]][cell[2]] # null})

\* the GameState of a game in progress: what is not on the board or staged is available
positionOf(rows, staged, player) ==
  LET board == boardOf(rows)
      stagedPiece == IF staged = 0 THEN null ELSE generateAllPieces[staged]
  IN [board |-> board,
      availablePieces |->
        SelectSeq(generateAllPieces,
                  LAMBDA p : p \notin onBoard(board) /\ p # stagedPiece),
      stagedPiece |-> stagedPiece,
      currentPlayer |-> player,
      gameOver |-> FALSE,
      winner |-> noWinner]

StartPosition ==
  positionOf(<<<<0, 0, 0, 0>>, <<0, 0, 0, 0>>, <<0, 0, 0, 0>>, <<0, 0, 0, 0>>>>, 0, 1)

LatePositions ==
  { positionOf(<<<<14, 7, 11, 2>>, <<16, 0, 9, 13>>, <<15, 0, 12, 0>>, <<0, 10, 0, 5>>>>, 8, 1),
    positionOf(<<<<0, 6, 12, 0>>, <<3, 9, 0, 7>>, <<15, 0, 5, 16>>, <<14, 10, 4, 0>>>>, 1, 2),
    positionOf(<<<<3, 15, 4, 2>>, <<10, 0, 6, 5>>, <<0, 0, 13, 11>>, <<0, 14, 7, 9>>>>, 0, 1) }

Positions == {StartPosition} \cup LatePositions

\* the opening is explored while fewer than MaxOpening pieces have left the pool,
\* late games to their end
MaxOpening == 1

Explored(s) ==
  \/ 16 - Len(s.availablePieces) < MaxOpening
  \/ \E pos \in LatePositions : piecesOnBoard(s.board) >= piecesOnBoard(pos.board)

noMove == [place |-> noPlace, give |-> null]

\* the App state of a game in the position pos
appOf(pos, p1, p2, type) ==
  [board |-> pos.board,
   availablePieces |-> pos.availablePieces,
   stagedPiece |-> pos.stagedPiece,
   currentPlayer |-> pos.currentPlayer,
   gamePhase |-> IF pos.stagedPiece = null THEN "give" ELSE "place",
   gameState |-> "playing",
   winner |-> noWinner,
   winningLine |-> noLine,
   player1AI |-> p1, player2AI |-> p2, aiType |-> type]

\* the App state after construction
initialApp == appOf(StartPosition, FALSE, FALSE, "basic")

noEvent == [kind |-> "none", placement |-> null, pieceToGive |-> null]

\* defaultMCTSConfig; explorationConstant in units of 1e-4
defaultMCTSConfig ==
  [maxIterations |-> 1000, maxDepth |-> 20, explorationConstant |-> sqrt2,
   moveSortStrategy |-> "center_first", playoutDepth |-> 50]

\* how a call of search ended: returned with a move, or threw
outcomeOf(pc, bestMove, error) == [pc |-> pc, bestMove |-> bestMove, error |-> error]

noOutcome == outcomeOf("none", null, "none")

\* the local variables of search before its first iteration, on the root state root,
\* and the caller's state as it was when search was called; where search is called
\* a second time on the values Math.random() delivered to the first call: which call
\* this is, the values (recorded by the first call, left to deliver in the second)
\* and the outcome of the first call
startOfSearch(root) ==
  [pc |-> "iterate", iteration |-> 0, node |-> 1, currentState |-> root, depth |-> 0,
   result |-> Tie, bestMove |-> null, error |-> "none", initialState |-> root,
   call |-> 1, draws |-> <<>>, first |-> noOutcome]

noRun == [startOfSearch(StartPosition) EXCEPT !.pc = "none"]

VARIABLES
  driver,   \* who drives the game: "engine" (expansion, playout) or "host" (the app)
  state,    \* engine: the GameState the game is in
  before,   \* engine: the GameState the last move was applied to
  move,     \* engine: the last Move applied
  app,      \* host: the App component's state
  event,    \* host: the last handler that changed the state, with its arguments
  placer,   \* the player who placed the last piece of this run, 0 before the first
  config,   \* search: the MCTSConfig of the MCTSSearch
  nodes,    \* search: the tree of MCTSNodes, the root first
  run,      \* search: where the call of search is, and its local variables
  ai,       \* basic AI: the input of the AI and what its last call returned
  timer     \* host: pendingExecutionRef and the timeout of the AI-scheduling effect

gameVars == <<state, before, move, app, event, placer, ai>>

searchVars == <<config, nodes, run>>

vars == <<driver, state, before, move, app, event, placer, config, nodes, run, ai, timer>>

\* no AI move scheduled: pendingExecutionRef false, no timeout set, no cleanup
\* returned by the effect
noTimer == [pendingExecutionRef |-> FALSE, timeout |-> <<>>, cleanup |-> FALSE]

\* the search of a game that does not search
noSearch ==
  /\ config = defaultMCTSConfig
  /\ nodes = <<>>
  /\ run = noRun

\* the basic AI of a game that does not call it directly
noAI == ai = noCall(inputOf(StartPosition, "undefined"))

EngineInit ==
  /\ driver = "engine"
  /\ timer = noTimer
  /\ state \in Positions
  /\ before = state
  /\ move = noMove
  /\ app = initialApp
  /\ event = noEvent
  /\ placer = 0
  /\ noSearch
  /\ noAI

placerAfter(s, m) ==
  IF m.place # noPlace /\ s.stagedPiece # null THEN s.currentPlayer ELSE placer

\* a tree expansion step: MCTSNode.applyMove on a legal move of the node's state
ApplyMove ==
  /\ driver = "engine"
  /\ Explored(state)
  /\ \E k \in 1..Len(MCTSNode_getLegalMoves(state)) :
       LET m == MCTSNode_getLegalMoves(state)[k]
       IN /\ state' = MCTSNode_applyMove(state, m)
          /\ move' = m
          /\ placer' = placerAfter(state, m)
  /\ before' = state
  /\ UNCHANGED <<driver, app, event, ai>>
  /\ UNCHANGED <<searchVars, timer>>

\* a playout step: MCTSSearch.applyMoveToState on a legal move of the playout's state
ApplyMoveToState ==
  /\ driver = "engine"
  /\ Explored(state)
  /\ \E k \in 1..Len(MCTSSearch_getLegalMoves(state)) :
       LET m == MCTSSearch_getLegalMoves(state)[k]
       IN /\ state' = applyMoveToState(state, m)
          /\ move' = m
          /\ placer' = placerAfter(state, m)
  /\ before' = state
  /\ UNCHANGED <<driver, app, event, ai>>
  /\ UNCHANGED <<searchVars, timer>>

EngineNext == ApplyMove \/ ApplyMoveToState

EngineSpec == EngineInit /\ [][EngineNext]_vars

(***************************************************************************)
(* The host's game: human clicks and AI moves on the App state.            *)
(***************************************************************************)
HostInit ==
  /\ driver = "host"
  /\ timer = noTimer
  /\ app \in {appOf(pos, p1, p2, type) :
                pos \in Positions, p1 \in BOOLEAN, p2 \in BOOLEAN, type \in {"basic", "mcts"}}
  /\ event = noEvent
  /\ placer = 0
  /\ state = StartPosition
  /\ before = StartPosition
  /\ move = noMove
  /\ noSearch
  /\ noAI

\* the human picks an available piece in the piece set
HandlePieceSelect ==
  /\ driver = "host"
  /\ Explored(app)
  /\ canHandlePieceSelect(app)
  /\ \E k \in 1..Len(app.availablePieces) :
       LET piece == app.availablePieces[k]
       IN /\ app' = rendered(app, handlePieceSelect(app, piece))
          /\ event' = [kind |-> "handlePieceSelect", placement |-> null, pieceToGive |-> piece]
  /\ UNCHANGED <<driver, state, before, move, placer, ai>>
  /\ UNCHANGED <<searchVars, timer>>

\* the human clicks a cell of the board
HandleCellClick ==
  /\ driver = "host"
  /\ Explored(app)
  /\ \E row \in Idx, col \in Idx :
       /\ canHandleCellClick(app, row, col)
       /\ app' = rendered(app, handleCellClick(app, row, col))
       /\ event' = [kind |-> "handleCellClick",
                    placement |-> [row |-> row, col |-> col], pieceToGive |-> null]
  /\ placer' = app.currentPlayer
  /\ UNCHANGED <<driver, state, before, move, ai>>
  /\ UNCHANGED <<searchVars, timer>>

aiPlacerAfter(aiMove) ==
  IF aiMove.placement # null /\ app.stagedPiece # null THEN app.currentPlayer ELSE placer

\* the AI timer fires, aiType 'basic': executeBasicAIMove, then applyAIMove
ExecuteBasicAIMove ==
  /\ driver = "host"
  /\ Explored(app)
  /\ canExecuteAIMove(app)
  /\ app.aiType = "basic"
  /\ \E aiMove \in makeAIMoveResults(basicAIInput(app)) :
       /\ app' = rendered(app, applyAIMove(app, aiMove))
       /\ event' = [kind |-> "applyAIMove",
                    placement |-> aiMove.placement, pieceToGive |-> aiMove.pieceToGive]
       /\ placer' = aiPlacerAfter(aiMove)
  /\ UNCHANGED <<driver, state, before, move, ai>>
  /\ UNCHANGED <<searchVars, timer>>

\* the AI timer fires, aiType 'mcts': executeMCTSMove, then applyAIMove; search
\* returns the move of one of the root's children, a legal move of the snapshot
ExecuteMCTSMove ==
  /\ driver = "host"
  /\ Explored(app)
  /\ canExecuteAIMove(app)
  /\ app.aiType = "mcts"
  /\ \E k \in 1..Len(MCTSNode_getLegalMoves(createGameStateFromApp(app))) :
       LET aiMove == convertMCTSMove(MCTSNode_getLegalMoves(createGameStateFromApp(app))[k])
       IN /\ app' = rendered(app, applyAIMove(app, aiMove))
          /\ event' = [kind |-> "applyAIMove",
                       placement |-> aiMove.placement, pieceToGive |-> aiMove.pieceToGive]
          /\ placer' = aiPlacerAfter(aiMove)
  /\ UNCHANGED <<driver, state, before, move, ai>>
  /\ UNCHANGED <<searchVars, timer>>

\* the New Game button
StartNewGame ==
  /\ driver = "host"
  /\ app' = rendered(app, startNewGame(app))
  /\ app' # app
  /\ event' = [kind |-> "startNewGame", placement |-> null, pieceToGive |-> null]
  /\ placer' = 0
  /\ UNCHANGED <<driver, state, before, move, ai>>
  /\ UNCHANGED <<searchVars, timer>>

HostNext ==
  \/ HandlePieceSelect
  \/ HandleCellClick
  \/ ExecuteBasicAIMove
  \/ ExecuteMCTSMove
  \/ StartNewGame

HostSpec == HostInit /\ [][HostNext]_vars

(***************************************************************************)
(* Games of two humans from the empty board that fill a pair of crossing   *)
(* lines: a row and a column, a column and the main diagonal, a row and    *)
(* the anti-diagonal.  The win-check effect runs checkWinCondition and     *)
(* getWinningLine after every placement.                                   *)
(***************************************************************************)
\* the pairs of lines the games fill
LinePairs ==
  { {<<0, c>> : c \in Idx} \cup {<<r, 0>> : r \in Idx},
    {<<r, 0>> : r \in Idx} \cup {<<i, i>> : i \in Idx},
    {<<3, c>> : c \in Idx} \cup {<<i, 3 - i>> : i \in Idx} }

\* the pieces are given in one of these orders: seven tall pieces, any four of which
\* share their height; and pieces of which some four share no attribute
GiveOrders == {<<1, 2, 3, 4, 5, 6, 7>>, <<16, 1, 15, 2, 14, 3, 4>>}

\* the cells that hold a piece
occupied(board) == {cell \in Cells : board[cell[1]][cell[2]] # null}

\* the pieces that go on in one of the orders after those that have left the pool
nextToGive ==
  LET given == 16 - Len(app.availablePieces)
  IN {generateAllPieces[order[given + 1]] :
        order \in {o \in GiveOrders :
                     /\ given < Len(o)
                     /\ \A k \in 1..given :
                          ~(\E i \in 1..Len(app.availablePieces) :
                              app.availablePieces[i] = generateAllPieces[o[k]])}}

LineInit ==
  /\ driver = "line"
  /\ timer = noTimer
  /\ app = initialApp
  /\ event = noEvent
  /\ placer = 0
  /\ state = StartPosition
  /\ before = StartPosition
  /\ move = noMove
  /\ noSearch
  /\ noAI

\* a human gives the next piece
GiveNext ==
  /\ driver = "line"
  /\ canHandlePieceSelect(app)
  /\ \E piece \in nextToGive :
       /\ app' = rendered(app, handlePieceSelect(app, piece))
       /\ event' = [kind |-> "handlePieceSelect", placement |-> null, pieceToGive |-> piece]
  /\ UNCHANGED <<driver, state, before, move, placer, ai>>
  /\ UNCHANGED <<searchVars, timer>>

\* a human clicks a cell of the pair of lines
ClickOnLines ==
  /\ driver = "line"
  /\ \E row \in Idx, col \in Idx :
       /\ \E pair \in LinePairs : occupied(app.board) \cup {<<row, col>>} \subseteq pair
       /\ canHandleCellClick(app, row, col)
       /\ app' = rendered(app, handleCellClick(app, row, col))
       /\ event' = [kind |-> "handleCellClick",
                    placement |-> [row |-> row, col |-> col], pieceToGive |-> null]
  /\ placer' = app.currentPlayer
  /\ UNCHANGED <<driver, state, before, move, ai>>
  /\ UNCHANGED <<searchVars, timer>>

LineNext == GiveNext \/ ClickOnLines

LineSpec == LineInit /\ [][LineNext]_vars

(***************************************************************************)
(* The search: one call of MCTSSearch.search, a step per phase of its      *)
(* loop and a step per move of a playout.                                  *)
(***************************************************************************)
\* root states: one empty cell (the last placement ties); two empty cells, after
\* either placement the opponent wins; two empty cells, one placement wins; three
\* empty cells; a late game waiting for a give
SearchRoots ==
  { positionOf(<<<<14, 7, 11, 2>>, <<16, 1, 9, 13>>, <<15, 0, 12, 3>>, <<4, 10, 8, 5>>>>, 6, 1),
    positionOf(<<<<14, 7, 11, 2>>, <<16, 8, 9, 13>>, <<15, 0, 12, 3>>, <<4, 10, 0, 5>>>>, 6, 2),
    positionOf(<<<<14, 7, 11, 2>>, <<16, 1, 9, 13>>, <<15, 0, 12, 3>>, <<0, 10, 8, 5>>>>, 6, 2),
    positionOf(<<<<14, 7, 11, 2>>, <<16, 0, 9, 13>>, <<15, 0, 12, 3>>, <<0, 10, 8, 5>>>>, 1, 1),
    positionOf(<<<<3, 15, 4, 2>>, <<10, 0, 6, 5>>, <<0, 0, 13, 11>>, <<0, 14, 7, 9>>>>, 0, 1) }

MaxIterations == 6
MaxDepth == 2
MaxPlayoutDepth == 2

MoveSortStrategy == {"random", "center_first", "corners_first", "defensive"}

Configs ==
  [maxIterations : 1..MaxIterations, maxDepth : 1..MaxDepth, explorationConstant : {sqrt2},
   moveSortStrategy : MoveSortStrategy, playoutDepth : 1..MaxPlayoutDepth]

\* search(initialState) has built the root node
SearchInit ==
  /\ driver = "search"
  /\ timer = noTimer
  /\ config \in Configs
  /\ \E root \in SearchRoots :
       /\ nodes = rootOfSearch(<<>>, root)
       /\ run = startOfSearch(root)
  /\ state = StartPosition
  /\ before = StartPosition
  /\ move = noMove
  /\ app = initialApp
  /\ event = noEvent
  /\ placer = 0
  /\ noAI

\* the start of an iteration: selection, then expansion; a throw of selectBestChild
\* ends the call
Iterate ==
  /\ driver \in {"search", "repeat"}
  /\ run.pc = "iterate"
  /\ run.iteration < config.maxIterations
  /\ \E selected \in {select(nodes, 1, config.explorationConstant)} :
        IF selected = 0
        THEN /\ run' = [run EXCEPT !.pc = "threw", !.error = reduceError]
             /\ nodes' = nodes
        ELSE \E expanded \in {expansion(nodes, selected, config)} :
                IF expanded.nodes = cannotExpand
                THEN /\ run' = [run EXCEPT !.pc = "threw", !.error = expandError]
                     /\ nodes' = nodes
                ELSE /\ nodes' = expanded.nodes
                     /\ run' = [run EXCEPT !.pc = "simulate",
                                           !.node = expanded.node,
                                           !.currentState = cloneState(expanded.nodes[expanded.node].state),
                                           !.depth = 0]
  /\ UNCHANGED <<driver, config>>
  /\ UNCHANGED <<gameVars, timer>>

\* a loop condition of simulate without the depth < playoutDepth test
playoutGoesOn_AnyDepth ==
  /\ ~run.currentState.gameOver
  /\ MCTSSearch_getLegalMoves(run.currentState) # <<>>

\* the playout goes on: simulate's loop condition and the moves.length test
playoutGoesOn ==
  /\ ~run.currentState.gameOver
  /\ run.depth < config.playoutDepth
  /\ MCTSSearch_getLegalMoves(run.currentState) # <<>>

\* one pass of simulate's loop
PlayoutMove ==
  /\ driver = "search"
  /\ run.pc = "simulate"
  /\ playoutGoesOn
  /\ \E randomMove \in playoutMoves(MCTSSearch_getLegalMoves(run.currentState),
                                    run.currentState, config.moveSortStrategy) :
       run' = [run EXCEPT !.currentState = applyMoveToState(run.currentState, randomMove),
                          !.depth = @ + 1]
  /\ UNCHANGED <<driver, config, nodes>>
  /\ UNCHANGED <<gameVars, timer>>

\* the end of simulate and the backpropagation of its result; the iteration is over
Backpropagate ==
  /\ driver \in {"search", "repeat"}
  /\ run.pc = "simulate"
  /\ ~playoutGoesOn
  /\ LET result == score(run.currentState, nodes[run.node].state)
     IN /\ nodes' = backpropagate(nodes, run.node, result)
        /\ run' = [run EXCEPT !.pc = "iterate", !.result = result, !.iteration = @ + 1]
  /\ UNCHANGED <<driver, config>>
  /\ UNCHANGED <<gameVars, timer>>

\* after the loop: the reduce over the root's children throws a TypeError on an
\* empty array, search returns the move of the best child otherwise
BestChild ==
  /\ driver \in {"search", "repeat"}
  /\ run.pc = "iterate"
  /\ run.iteration >= config.maxIterations
  /\ IF nodes[1].children = <<>>
     THEN run' = [run EXCEPT !.pc = "threw", !.error = reduceError]
     ELSE run' = [run EXCEPT !.pc = "returned",
                             !.bestMove = nodes[bestChild(nodes)].move]
  /\ UNCHANGED <<driver, config, nodes>>
  /\ UNCHANGED <<gameVars, timer>>

SearchNext == Iterate \/ PlayoutMove \/ Backpropagate \/ BestChild

SearchSpec == SearchInit /\ [][SearchNext]_vars

(***************************************************************************)
(* search run to its end: the for loop and the while loops of select and   *)
(* simulate run without interruption, so that a step that can be taken is  *)
(* taken.  The roots are late games, one of them a give with no staged     *)
(* piece, and playoutDepth goes beyond the number of their empty cells.    *)
(***************************************************************************)
\* two empty cells, two pieces left and no staged piece: the player to move gives
LateGiveRoot ==
  positionOf(<<<<14, 7, 11, 2>>, <<16, 1, 9, 13>>, <<15, 0, 12, 3>>, <<0, 10, 8, 5>>>>, 0, 1)

TerminationRoots ==
  {r \in SearchRoots : piecesOnBoard(r.board) >= 14} \cup {LateGiveRoot}

TerminationIterations == 4
TerminationPlayoutDepth == 4

TerminationConfigs ==
  [maxIterations : 1..TerminationIterations, maxDepth : 1..MaxDepth,
   explorationConstant : {sqrt2}, moveSortStrategy : MoveSortStrategy,
   playoutDepth : 1..TerminationPlayoutDepth]

TerminationInit ==
  /\ driver = "search"
  /\ timer = noTimer
  /\ config \in TerminationConfigs
  /\ \E root \in TerminationRoots :
       /\ nodes = rootOfSearch(<<>>, root)
       /\ run = startOfSearch(root)
  /\ state = StartPosition
  /\ before = StartPosition
  /\ move = noMove
  /\ app = initialApp
  /\ event = noEvent
  /\ placer = 0
  /\ noAI

TerminationSpec == TerminationInit /\ [][SearchNext]_vars /\ WF_vars(SearchNext)

(***************************************************************************)
(* Two calls of search on the same state, with the same config and the     *)
(* same values of Math.random(): the first call draws its values and       *)
(* records them, the second is handed them in the same order.              *)
(***************************************************************************)
\* the values of Math.random() of these runs: one for each index of two or three
\* moves
Drawn == {0, 11}

\* the number of empty cells of a state's board
emptyCount(s) == 16 - piecesOnBoard(s.board)

\* three empty cells and three pieces to give: which piece is given decides whether
\* a playout can win
GiveRoot ==
  positionOf(<<<<14, 7, 11, 2>>, <<16, 0, 9, 13>>, <<15, 0, 12, 3>>, <<0, 10, 8, 5>>>>, 0, 1)

\* the roots with a staged piece and at most two empty cells, and GiveRoot
RepeatRoots ==
  {r \in SearchRoots : r.stagedPiece # null /\ emptyCount(r) <= 2} \cup {GiveRoot}

RepeatIterations == 5

\* the calls that are repeated; the shuffle of the random strategy draws a value for
\* every move but one, and is run on the roots with at most two empty cells
RepeatCalls ==
  {call \in RepeatRoots \X Configs :
     /\ call[2].maxIterations <= RepeatIterations
     /\ call[2].moveSortStrategy = "random" => emptyCount(call[1]) <= 2}

RepeatInit ==
  /\ driver = "repeat"
  /\ timer = noTimer
  /\ \E call \in RepeatCalls :
       /\ config = call[2]
       /\ nodes = rootOfSearch(<<>>, call[1])
       /\ run = startOfSearch(call[1])
  /\ state = StartPosition
  /\ before = StartPosition
  /\ move = noMove
  /\ app = initialApp
  /\ event = noEvent
  /\ placer = 0
  /\ noAI

\* one pass of simulate's loop in the first call: its Math.random() values are drawn
DrawPlayoutMove ==
  /\ driver = "repeat"
  /\ run.call = 1
  /\ run.pc = "simulate"
  /\ playoutGoesOn
  /\ LET moves == MCTSSearch_getLegalMoves(run.currentState)
         n == drawsOfPlayoutMove(Len(moves), config.moveSortStrategy)
     IN \E rs \in [1..n -> Drawn] :
          run' = [run EXCEPT
                    !.currentState =
                       applyMoveToState(run.currentState,
                                        drawnMove(moves, run.currentState,
                                                  config.moveSortStrategy, rs)),
                    !.depth = @ + 1,
                    !.draws = @ \o rs]
  /\ UNCHANGED <<driver, config, nodes>>
  /\ UNCHANGED <<gameVars, timer>>

\* one pass of simulate's loop in the second call: Math.random() delivers the next
\* of the recorded values
ReplayPlayoutMove ==
  /\ driver = "repeat"
  /\ run.call = 2
  /\ run.pc = "simulate"
  /\ playoutGoesOn
  /\ LET moves == MCTSSearch_getLegalMoves(run.currentState)
         n == drawsOfPlayoutMove(Len(moves), config.moveSortStrategy)
     IN IF Len(run.draws) < n
        THEN run' = [run EXCEPT !.pc = "out of values"]
        ELSE run' = [run EXCEPT
                       !.currentState =
                          applyMoveToState(run.currentState,
                                           drawnMove(moves, run.currentState,
                                                     config.moveSortStrategy,
                                                     SubSeq(run.draws, 1, n))),
                       !.depth = @ + 1,
                       !.draws = SubSeq(@, n + 1, Len(@))]
  /\ UNCHANGED <<driver, config, nodes>>
  /\ UNCHANGED <<gameVars, timer>>

\* the first call is over; search is called again on the same state
SearchAgain ==
  /\ driver = "repeat"
  /\ run.call = 1
  /\ run.pc \in {"returned", "threw"}
  /\ nodes' = rootOfSearch(nodes, run.initialState)
  /\ run' = [startOfSearch(run.initialState) EXCEPT
               !.call = 2,
               !.draws = run.draws,
               !.first = outcomeOf(run.pc, run.bestMove, run.error)]
  /\ UNCHANGED <<driver, config>>
  /\ UNCHANGED <<gameVars, timer>>

RepeatNext ==
  \/ Iterate
  \/ DrawPlayoutMove
  \/ ReplayPlayoutMove
  \/ Backpropagate
  \/ BestChild
  \/ SearchAgain

RepeatSpec == RepeatInit /\ [][RepeatNext]_vars

(***************************************************************************)
(* The basic AI: calls of makeAIPlacement, makeAIPieceSelection and        *)
(* makeAIMove on the positions of games in progress, at every difficulty.  *)
(***************************************************************************)
Difficulties == {"undefined", "easy", "normal", "hard", "nightmare"}

\* the positions the AI is first called on
AIPositions == LatePositions \cup SearchRoots

AIInit ==
  /\ driver = "ai"
  /\ timer = noTimer
  /\ \E pos \in AIPositions, difficulty \in Difficulties :
       ai = noCall(inputOf(pos, difficulty))
  /\ state = StartPosition
  /\ before = StartPosition
  /\ move = noMove
  /\ app = initialApp
  /\ event = noEvent
  /\ placer = 0
  /\ noSearch

\* a call of makeAIPlacement on the input; what it returned stays to be looked at
MakeAIPlacement ==
  /\ driver \in {"ai", "opening"}
  /\ ai.call = "none"
  /\ \E placed \in makeAIPlacementResults(ai.input) :
       ai' = callOf(ai.input, "makeAIPlacement", placed, notSelected, ai.input)
  /\ UNCHANGED <<driver, state, before, move, app, event, placer>>
  /\ UNCHANGED <<searchVars, timer>>

\* a call of makeAIPieceSelection on the input
MakeAIPieceSelection ==
  /\ driver = "ai"
  /\ ai.call = "none"
  /\ \E given \in makeAIPieceSelectionResults(ai.input) :
       ai' = callOf(ai.input, "makeAIPieceSelection", notPlaced, given, ai.input)
  /\ UNCHANGED <<driver, state, before, move, app, event, placer>>
  /\ UNCHANGED <<searchVars, timer>>

\* a call of makeAIMove on the input
MakeAIMove ==
  /\ driver = "ai"
  /\ ai.call = "none"
  /\ \E placed \in makeAIPlacementResults(ai.input) :
       LET selected == updatedInput(ai.input, placed.placement)
       IN IF winsByPlacement(ai.input, placed.placement)
          THEN ai' = callOf(ai.input, "makeAIMove", placed, notSelected, selected)
          ELSE \E given \in makeAIPieceSelectionResults(selected) :
                 ai' = callOf(ai.input, "makeAIMove", placed, given, selected)
  /\ UNCHANGED <<driver, state, before, move, app, event, placer>>
  /\ UNCHANGED <<searchVars, timer>>

\* the game goes on by a legal move that does not end it: the next input of the AI
Play ==
  /\ driver = "ai"
  /\ ai.call = "none"
  /\ ai.input.availablePieces # <<>>
  /\ \E k \in 1..Len(ai.input.availablePieces) :
       LET give == ai.input.availablePieces[k]
           rest == removePiece(ai.input.availablePieces, give)
       IN IF ai.input.pieceToPlace = null
          THEN ai' = noCall([ai.input EXCEPT !.pieceToPlace = give, !.availablePieces = rest])
          ELSE \E j \in 1..Len(getEmptyPositions(ai.input.board)) :
                 LET board == testBoardWith(ai.input.board, getEmptyPositions(ai.input.board)[j],
                                            ai.input.pieceToPlace)
                 IN /\ ~checkWinCondition(board)
                    /\ ~isBoardFull(board)
                    /\ ai' = noCall([ai.input EXCEPT !.board = board, !.pieceToPlace = give,
                                                     !.availablePieces = rest])
  /\ UNCHANGED <<driver, state, before, move, app, event, placer>>
  /\ UNCHANGED <<searchVars, timer>>

AINext == MakeAIPlacement \/ MakeAIPieceSelection \/ MakeAIMove \/ Play

AISpec == AIInit /\ [][AINext]_vars

(***************************************************************************)
(* The basic AI at nightmare on the boards of the third placement: two     *)
(* pieces on the board, a third staged, the other 13 available.            *)
(***************************************************************************)
\* the first piece is the first of the catalog and lies on a cell of a diagonal
\* (three lines go through it) or on a cell off the diagonals (two lines); the
\* second piece differs from it in one, two, three or four attributes and lies on
\* any other cell; the staged piece is any other piece
OpeningFirst == {1}

OpeningSecond == {2, 4, 8, 16}

OpeningCells == {<<0, 0>>, <<0, 1>>}

\* the choices of the two cells and the three pieces
OpeningChoices ==
  {t \in OpeningCells \X Cells \X OpeningFirst \X OpeningSecond \X (1..16) :
     t[1] # t[2] /\ t[3] # t[4] /\ t[3] # t[5] /\ t[4] # t[5]}

\* the input of the third placement: piece p1 on cell c1, p2 on c2, p3 to place
openingInput(c1, c2, p1, p2, p3) ==
  [board |-> [row \in Idx |-> [col \in Idx |->
                IF <<row, col>> = c1 THEN generateAllPieces[p1]
                ELSE IF <<row, col>> = c2 THEN generateAllPieces[p2]
                ELSE null]],
   pieceToPlace |-> generateAllPieces[p3],
   availablePieces |-> SelectSeq(generateAllPieces,
                                 LAMBDA p : p \notin {generateAllPieces[p1],
                                                      generateAllPieces[p2],
                                                      generateAllPieces[p3]}),
   difficulty |-> "nightmare"]

OpeningInit ==
  /\ driver = "opening"
  /\ timer = noTimer
  /\ \E t \in OpeningChoices : ai = noCall(openingInput(t[1], t[2], t[3], t[4], t[5]))
  /\ state = StartPosition
  /\ before = StartPosition
  /\ move = noMove
  /\ app = initialApp
  /\ event = noEvent
  /\ placer = 0
  /\ noSearch

OpeningNext == MakeAIPlacement

OpeningSpec == OpeningInit /\ [][OpeningNext]_vars

(***************************************************************************)
(* The host's game with the AI-scheduling effect: the effect sets a        *)
(* timeout that calls the executeAIMove of the render it was set in, and   *)
(* returns a cleanup that clears it.  A handler's state updates are        *)
(* rendered and the effects whose dependencies changed run, until no       *)
(* state update is left: one step.                                         *)
(***************************************************************************)
\* the AI-scheduling effect's dependencies without currentPlayer
aiEffectDeps_NoPlayer(a) ==
  <<a.gamePhase, a.gameState, a.player1AI, a.player2AI, a.aiType>>

\* the dependencies of the AI-scheduling effect
aiEffectDeps(a) ==
  <<a.currentPlayer, a.gamePhase, a.gameState, a.player1AI, a.player2AI, a.aiType>>

\* the AI-scheduling effect run for the render of a: the cleanup the last run
\* returned, then the effect's body
aiEffect(t, a) ==
  LET cleaned == IF t.cleanup THEN noTimer ELSE t
  IN IF a.gameState = "playing" /\ isCurrentPlayerAI(a)
     THEN IF cleaned.pendingExecutionRef
          THEN [cleaned EXCEPT !.cleanup = FALSE]
          ELSE [pendingExecutionRef |-> TRUE, timeout |-> <<a>>, cleanup |-> TRUE]
     ELSE [cleaned EXCEPT !.cleanup = FALSE]

\* the timer after the render of new and the render of the win-check's update
timerAfter(old, t, new) ==
  LET first == IF aiEffectDeps(new) # aiEffectDeps(old) THEN aiEffect(t, new) ELSE t
      last == rendered(old, new)
  IN IF aiEffectDeps(last) # aiEffectDeps(new) THEN aiEffect(first, last) ELSE first

\* applyAIMove of the render c, on the state cur: the setters called, with the
\* values computed from c
applyAIMoveOf(c, cur, aiMove) ==
  LET places == aiMove.placement # null /\ c.stagedPiece # null
      gives == aiMove.pieceToGive # null
      applied == applyAIMove(c, aiMove)
  IN [cur EXCEPT !.board = IF places THEN applied.board ELSE @,
                 !.stagedPiece = IF places \/ gives THEN applied.stagedPiece ELSE @,
                 !.availablePieces = IF gives THEN applied.availablePieces ELSE @,
                 !.currentPlayer = IF gives THEN applied.currentPlayer ELSE @,
                 !.gamePhase = IF gives THEN applied.gamePhase ELSE @]

\* the values of Math.random() that pick a cell or a piece, and the number of
\* legal moves tried, where the game is not explored in full
OpeningDraws == {11}
OpeningMoves == 1

picksOf(c) == IF Explored(c) THEN Random ELSE OpeningDraws

\* the moves makeAIMove can return for the render c, no difficulty passed: the
\* first winning cell and no piece, if a cell wins; else a cell of the random
\* branch, which picks any empty cell and so includes the strategic branch's, and
\* likewise any available piece
makeAIMoveOutcomes(c) ==
  UNION {
    IF c.stagedPiece = null \/ Len(empties) = 0
    THEN {[placement |-> null, pieceToGive |-> give] : give \in gives}
    ELSE IF Len(winning) > 0
    THEN {[placement |-> winning[1], pieceToGive |-> null]}
    ELSE {[placement |-> getRandomElement(empties, r), pieceToGive |-> give] :
            r \in picksOf(c), give \in gives} :
      empties \in {getEmptyPositions(c.board)},
      winning \in {IF c.stagedPiece = null THEN <<>>
                   ELSE winningPositions(c.board, c.stagedPiece)},
      gives \in {IF Len(c.availablePieces) = 0 THEN {null}
                 ELSE {getRandomElement(c.availablePieces, r) : r \in picksOf(c)}} }

\* the moves executeBasicAIMove or executeMCTSMove of the render c can return
aiMovesOf(c) ==
  IF c.aiType = "basic"
  THEN IF driver = "timer"
       THEN makeAIMoveResults(basicAIInput(c))
       ELSE makeAIMoveOutcomes(c)
  ELSE UNION {{convertMCTSMove(legal[k]) :
                  k \in {j \in 1..Len(legal) : Explored(c) \/ j <= OpeningMoves}} :
                legal \in {MCTSNode_getLegalMoves(createGameStateFromApp(c))}}

\* a game in progress after its last render: the effect has run
timerStart ==
  /\ app \in {appOf(pos, p1, p2, type) :
                pos \in Positions, p1 \in BOOLEAN, p2 \in BOOLEAN, type \in {"basic", "mcts"}}
  /\ timer = aiEffect(noTimer, app)
  /\ event = noEvent
  /\ placer = 0
  /\ state = StartPosition
  /\ before = StartPosition
  /\ move = noMove
  /\ noSearch
  /\ noAI

\* the games with timers and a human at the board
TimerInit == driver = "timer" /\ timerStart

\* the timeout fires: executeAIMove of the render that set it, then
\* pendingExecutionRef is reset
TimerFires ==
  /\ driver \in {"timer", "auto"}
  /\ timer.timeout # <<>>
  /\ driver = "timer" => Explored(timer.timeout[1])
  /\ \E c \in {timer.timeout[1]},
        fired \in {[timer EXCEPT !.pendingExecutionRef = FALSE, !.timeout = <<>>]} :
       IF canExecuteAIMove(c)
       THEN \E aiMove \in aiMovesOf(c) :
              /\ event' = [kind |-> "applyAIMove", placement |-> aiMove.placement,
                           pieceToGive |-> aiMove.pieceToGive]
              /\ \E new \in {applyAIMoveOf(c, app, aiMove)} :
                   /\ app' = rendered(app, new)
                   /\ timer' = timerAfter(app, fired, new)
              /\ placer' = IF aiMove.placement # null /\ c.stagedPiece # null
                           THEN c.currentPlayer ELSE placer
       ELSE /\ timer' = fired
            /\ UNCHANGED <<app, event, placer>>
  /\ UNCHANGED <<driver, state, before, move, ai>>
  /\ UNCHANGED searchVars

\* the human picks an available piece while timers run
TimedPieceSelect ==
  /\ driver = "timer"
  /\ Explored(app)
  /\ canHandlePieceSelect(app)
  /\ \E k \in 1..Len(app.availablePieces) :
       LET piece == app.availablePieces[k]
           new == handlePieceSelect(app, piece)
       IN /\ app' = rendered(app, new)
          /\ timer' = timerAfter(app, timer, new)
          /\ event' = [kind |-> "handlePieceSelect", placement |-> null, pieceToGive |-> piece]
  /\ UNCHANGED <<driver, state, before, move, placer, ai>>
  /\ UNCHANGED searchVars

\* the human clicks a cell while timers run
TimedCellClick ==
  /\ driver = "timer"
  /\ Explored(app)
  /\ \E row \in Idx, col \in Idx :
       /\ canHandleCellClick(app, row, col)
       /\ LET new == handleCellClick(app, row, col)
          IN /\ app' = rendered(app, new)
             /\ timer' = timerAfter(app, timer, new)
       /\ event' = [kind |-> "handleCellClick",
                    placement |-> [row |-> row, col |-> col], pieceToGive |-> null]
  /\ placer' = app.currentPlayer
  /\ UNCHANGED <<driver, state, before, move, ai>>
  /\ UNCHANGED searchVars

\* the New Game button while timers run: pendingExecutionRef is reset, a timeout
\* that is set stays set
TimedNewGame ==
  /\ driver = "timer"
  /\ LET new == startNewGame(app)
     IN /\ app' = rendered(app, new)
        /\ timer' = timerAfter(app, [timer EXCEPT !.pendingExecutionRef = FALSE], new)
  /\ app' # app
  /\ event' = [kind |-> "startNewGame", placement |-> null, pieceToGive |-> null]
  /\ placer' = 0
  /\ UNCHANGED <<driver, state, before, move, ai>>
  /\ UNCHANGED searchVars

\* the Player 1 AI and Player 2 AI checkboxes
ToggleAI ==
  /\ driver = "timer"
  /\ Explored(app)
  /\ \E player \in {1, 2} :
       LET new == IF player = 1 THEN [app EXCEPT !.player1AI = ~@]
                  ELSE [app EXCEPT !.player2AI = ~@]
       IN /\ app' = rendered(app, new)
          /\ timer' = timerAfter(app, timer, new)
  /\ event' = [kind |-> "setPlayerAI", placement |-> null, pieceToGive |-> null]
  /\ UNCHANGED <<driver, state, before, move, placer, ai>>
  /\ UNCHANGED searchVars

TimerNext ==
  \/ TimerFires
  \/ TimedPieceSelect
  \/ TimedCellClick
  \/ TimedNewGame
  \/ ToggleAI

TimerSpec == TimerInit /\ [][TimerNext]_vars

\* the AIs alone: every timeout that is set fires
AutoInit == driver = "auto" /\ timerStart /\ app.player1AI /\ app.player2AI

AutoNext == TimerFires

AutoSpec == AutoInit /\ [][AutoNext]_vars /\ WF_vars(TimerFires)

\* the calls of the two deciders: search and the basic AI
CallInit == SearchInit \/ AIInit

CallNext == SearchNext \/ AINext

CallSpec == CallInit /\ [][CallNext]_vars

\* the games of the engine and of the host
Init == EngineInit \/ HostInit

Next == EngineNext \/ HostNext

Spec == Init /\ [][Next]_vars

(***************************************************************************)
(* The statements checked of the engine's game.                            *)
(***************************************************************************)
Attributes == {"height", "color", "shape", "top"}

\* the 10 lines: 4 rows, 4 columns, 2 diagonals
Lines ==
  {{<<r, c>> : c \in Idx} : r \in Idx} \cup {{<<r, c>> : r \in Idx} : c \in Idx}
    \cup {{<<i, i>> : i \in Idx}, {<<i, 3 - i>> : i \in Idx}}

at(board, cell) == board[cell[1]][cell[2]]

lineComplete(board, line) ==
  /\ \A cell \in line : at(board, cell) # null
  /\ \E a \in Attributes : \A c1 \in line : \A c2 \in line :
       at(board, c1)[a] = at(board, c2)[a]

winningLineExists(board) == \E line \in Lines : lineComplete(board, line)

\* the boards the engine looks at in a state: the state's board, and every test
\* board with the staged or an available piece put on an empty cell
boardsSeen(s) ==
  {s.board} \cup
  {[s.board EXCEPT ![cell[1]][cell[2]] = piece] :
     <<cell, piece>> \in
       {cell \in Cells : at(s.board, cell) = null}
         \X ({s.availablePieces[k] : k \in 1..Len(s.availablePieces)}
               \cup ({s.stagedPiece} \ {null}))}

\* C1: checkWinCondition(board) is true if and only if one of the 10 lines has its
\* four cells occupied by pieces that agree on at least one of the four attributes
C1_CheckWinIffLine ==
  \A b \in boardsSeen(state) : checkWinCondition(b) <=> winningLineExists(b)

\* a game won on the anti-diagonal alone
C1_Witness ==
  /\ checkWinCondition(state.board)
  /\ \A line \in Lines :
       lineComplete(state.board, line) <=> line = {<<i, 3 - i>> : i \in Idx}

occurrences(s, piece) ==
  Cardinality({cell \in Cells : at(s.board, cell) = piece})
    + Cardinality({k \in 1..Len(s.availablePieces) : s.availablePieces[k] = piece})
    + (IF s.stagedPiece = piece THEN 1 ELSE 0)

\* C2: every piece is in exactly one of board, available pieces and staged slot, and
\* availablePieces.length + piecesOnBoard + (stagedPiece ? 1 : 0) = 16
C2_PiecesAccounted ==
  /\ \A k \in 1..16 : occurrences(state, generateAllPieces[k]) = 1
  /\ Len(state.availablePieces) + piecesOnBoard(state.board)
       + (IF state.stagedPiece # null THEN 1 ELSE 0) = 16

\* a piece was placed and another one given by the last move
C2_Witness ==
  /\ move.place # noPlace /\ move.give # null
  /\ state.stagedPiece = move.give
  /\ at(state.board, move.place) = before.stagedPiece

\* C3: gameOver is true if and only if the board has a winning line or is full
C3_GameOverIffWinOrFull ==
  state.gameOver <=>
    (winningLineExists(state.board) \/ \A cell \in Cells : at(state.board, cell) # null)

\* a tie: the last placement filled the board without completing a line
C3_Witness ==
  /\ state.gameOver /\ move.place # noPlace
  /\ ~winningLineExists(state.board)
  /\ \A cell \in Cells : at(state.board, cell) # null

\* the legal moves as the rules give them
legalMoveSet(s) ==
  LET empty == {cell \in Cells : at(s.board, cell) = null}
      avail == {s.availablePieces[k] : k \in 1..Len(s.availablePieces)}
  IN IF s.gameOver THEN {}
     ELSE IF s.stagedPiece # null
     THEN IF avail # {}
          THEN {[place |-> cell, give |-> piece] : cell \in empty, piece \in avail}
          ELSE {[place |-> cell, give |-> null] : cell \in empty}
     ELSE {[place |-> noPlace, give |-> piece] : piece \in avail}

exactlyOnce(moves, set) ==
  /\ {moves[k] : k \in 1..Len(moves)} = set
  /\ Len(moves) = Cardinality(set)

\* C6: the enumerated moves are exactly the legal ones, each once: none in a terminal
\* state; with a staged piece (cell, piece) for every empty cell and available piece, or
\* (cell, none) for every empty cell when no piece is available; without a staged piece
\* (none, piece) for every available piece
C6_LegalMovesExact ==
  /\ exactlyOnce(MCTSNode_getLegalMoves(state), legalMoveSet(state))
  /\ exactlyOnce(MCTSSearch_getLegalMoves(state), legalMoveSet(state))

\* the final move of a game: a staged piece, one empty cell, nothing left to give
C6_Witness ==
  /\ ~state.gameOver /\ state.stagedPiece # null
  /\ Len(state.availablePieces) = 0
  /\ MCTSNode_getLegalMoves(state) = <<[place |-> emptyCellsInOrder(state.board)[1], give |-> null]>>

\* the game in progress, whoever drives it
game == IF driver = "engine" THEN state ELSE app

\* a step that is a move of the game, not the New Game button
moveStep == event'.kind # "startNewGame"

\* the step hands a piece of the pool over
gives == Len(game'.availablePieces) < Len(game.availablePieces)

\* the step puts a piece on the board
places == piecesOnBoard(game'.board) > piecesOnBoard(game.board)

\* C4: a move switches the current player exactly once when it gives a piece (the
\* give that completes a place-then-give pair, or the initial give) and leaves the
\* player alone otherwise, a placement alone included; two successive placements
\* of a game are made by different players
C4_PlayerSwitchesOncePerGive ==
  [][moveStep =>
       /\ game'.currentPlayer = IF gives THEN otherPlayer(game.currentPlayer)
                                         ELSE game.currentPlayer
       /\ (places /\ placer # 0 => placer # game.currentPlayer)]_vars

\* a completed place-then-give pair, after an earlier placement by the other player
C4_Witness ==
  /\ driver = "engine"
  /\ move.place # noPlace /\ move.give # null
  /\ state.stagedPiece = move.give
  /\ state.currentPlayer = otherPlayer(before.currentPlayer)
  /\ placer = before.currentPlayer
  /\ piecesOnBoard(state.board) >= 12

\* C5: no move changes an occupied cell: a placement writes to an empty cell only
\* and no piece is removed or moved, in the engine and in the host
C5_OccupiedCellsKept ==
  [][moveStep =>
       \A cell \in Cells :
         at(game.board, <<cell[1], cell[2]>>) # null
           => at(game'.board, <<cell[1], cell[2]>>) = at(game.board, <<cell[1], cell[2]>>)]_vars

\* the host has applied an AI move that places a piece on a board that has pieces
C5_Witness ==
  /\ driver = "host"
  /\ event.kind = "applyAIMove"
  /\ event.placement # null
  /\ at(app.board, <<event.placement.row, event.placement.col>>) # null
  /\ piecesOnBoard(app.board) > 10

(***************************************************************************)
(* The statements checked of the search.                                   *)
(***************************************************************************)
root == nodes[1]

childrenOfRoot == {root.children[k] : k \in 1..Len(root.children)}

\* C7: when search has finished its iteration budget and returns, the move it
\* returns is the move of a child of the root no other child of the root has more
\* visits than, whatever the win rates
C7_ReturnsMostVisitedChild ==
  run.pc = "returned" =>
    \E best \in childrenOfRoot :
      /\ nodes[best].move = run.bestMove
      /\ \A child \in childrenOfRoot : nodes[child].visits <= nodes[best].visits

\* search has returned the move of the most visited child, and a child with fewer
\* visits has the higher win rate
C7_Witness ==
  /\ run.pc = "returned"
  /\ \E best \in childrenOfRoot, child \in childrenOfRoot :
       /\ nodes[best].move = run.bestMove
       /\ nodes[child].visits < nodes[best].visits
       /\ nodes[child].wins * nodes[best].visits > nodes[best].wins * nodes[child].visits

\* the result the player to move in the root state is owed for a final state
resultForRootPlayer(finalState) ==
  IF finalState.winner = noWinner THEN Tie
  ELSE IF finalState.winner = root.state.currentPlayer THEN Win
  ELSE Loss

\* C8: the result backpropagated by an iteration is 1.0 if the winner of the
\* playout's final state is the player to move in the root state, 0.0 if it is the
\* other player and 0.5 if there is no winner, whichever node the playout started from
C8_ResultFromRootPerspective ==
  (run.pc = "iterate" /\ run.iteration > 0) => run.result = resultForRootPlayer(run.currentState)

\* C9: on a root state with a legal move, with maxIterations, maxDepth and
\* playoutDepth at least 1, search raises no error
C9_SearchRaisesNoError ==
  ( /\ MCTSNode_getLegalMoves(root.state) # <<>>
    /\ config.maxIterations >= 1 /\ config.maxDepth >= 1 /\ config.playoutDepth >= 1 )
  => run.pc # "threw"

\* C10: with maxIterations = 1 and a non-terminal root state, when the single
\* iteration is over the root has exactly 1 visit and exactly one expanded child
C10_OneIterationOneChild ==
  ( /\ config.maxIterations = 1
    /\ ~root.state.gameOver
    /\ run.pc = "iterate" /\ run.iteration = 1 )
  => (root.visits = 1 /\ Len(root.children) = 1)

(***************************************************************************)
(* The statements checked of the basic AI.                                 *)
(***************************************************************************)
\* the empty cells of a board where placing the piece completes a winning line
winningCells(board, piece) ==
  {cell \in Cells :
     /\ at(board, cell) = null
     /\ winningLineExists([board EXCEPT ![cell[1]][cell[2]] = piece])}

emptyCells(board) == {cell \in Cells : at(board, cell) = null}

\* row-major scan order
scansBefore(cell1, cell2) == 4 * cell1[1] + cell1[2] < 4 * cell2[1] + cell2[2]

firstInScan(cells) == CHOOSE cell \in cells : \A other \in cells \ {cell} : scansBefore(cell, other)

cellOf(position) == <<position.row, position.col>>

\* C11: at nightmare, when placing the staged piece on some empty cell completes a
\* winning line, makeAIPlacement returns the first such cell in row-major order and
\* makeAIMove returns that placement
C11_NightmareTakesFirstWin ==
  ( /\ ai.call \in {"makeAIPlacement", "makeAIMove"}
    /\ ai.input.difficulty = "nightmare"
    /\ ai.input.pieceToPlace # null
    /\ winningCells(ai.input.board, ai.input.pieceToPlace) # {} )
  => ( /\ ai.placement # null
       /\ cellOf(ai.placement) = firstInScan(winningCells(ai.input.board, ai.input.pieceToPlace)) )

\* makeAIMove at nightmare has taken the first of several winning cells, which is
\* not the first empty cell
C11_Witness ==
  /\ ai.call = "makeAIMove"
  /\ ai.input.difficulty = "nightmare"
  /\ ai.input.pieceToPlace # null
  /\ Cardinality(winningCells(ai.input.board, ai.input.pieceToPlace)) >= 2
  /\ ai.placement # null
  /\ cellOf(ai.placement) = firstInScan(winningCells(ai.input.board, ai.input.pieceToPlace))
  /\ cellOf(ai.placement) # firstInScan(emptyCells(ai.input.board))

\* C12: the placement the AI returns is none or an empty cell of the input board,
\* and the piece it returns is none or one of the input's available pieces, on
\* every branch
C12_ReturnsEmptyCellAndAvailablePiece ==
  ai.call # "none" =>
    /\ ai.placement = null \/ at(ai.input.board, cellOf(ai.placement)) = null
    /\ \/ ai.pieceToGive = null
       \/ \E k \in 1..Len(ai.input.availablePieces) : ai.input.availablePieces[k] = ai.pieceToGive

\* makeAIMove has returned a placement and a piece, both from the random branch
C12_Witness ==
  /\ ai.call = "makeAIMove"
  /\ ai.placementBranch = "random" /\ ai.selectionBranch = "random"
  /\ ai.placement # null /\ at(ai.input.board, cellOf(ai.placement)) = null
  /\ ai.pieceToGive # null
  /\ \E k \in 1..Len(ai.input.availablePieces) : ai.input.availablePieces[k] = ai.pieceToGive

available(input) == {input.availablePieces[k] : k \in 1..Len(input.availablePieces)}

\* the available pieces that complete no winning line on any empty cell of the board
safeToGive(input) == {piece \in available(input) : winningCells(input.board, piece) = {}}

selectionCalled == ai.selectionBranch # "not called"

\* C13: when its random branch is not taken, makeAIPieceSelection returns a safe
\* piece of the board it is given (in makeAIMove the board with the placement made)
\* if one is available, and an available piece if all are dangerous; it returns
\* none exactly when no piece is available
C13_GivesSafePieceIfAny ==
  selectionCalled =>
    /\ (ai.selectionBranch # "random" /\ safeToGive(ai.selectionInput) # {})
         => ai.pieceToGive \in safeToGive(ai.selectionInput)
    /\ (ai.selectionBranch # "random" /\ safeToGive(ai.selectionInput) = {}
          /\ available(ai.selectionInput) # {})
         => ai.pieceToGive \in available(ai.selectionInput)
    /\ ai.pieceToGive = null <=> available(ai.selectionInput) = {}

\* makeAIMove has placed without winning and every piece left is dangerous on the
\* board with the placement: it gives one of them
C13_Witness ==
  /\ ai.call = "makeAIMove"
  /\ ai.placement # null
  /\ ai.selectionBranch = "dangerous"
  /\ Cardinality(available(ai.selectionInput)) >= 2
  /\ safeToGive(ai.selectionInput) = {}
  /\ ai.pieceToGive \in available(ai.selectionInput)

\* the safe-piece count of an empty cell: the available pieces that complete no
\* winning line on the board as it is after placing the staged piece in the cell
safePieceCount(input, cell) ==
  Cardinality(safeToGive([input EXCEPT !.board[cell[1]][cell[2]] = input.pieceToPlace]))

\* the minSafe threshold of a difficulty; no difficulty given is normal
minSafe(difficulty) ==
  CASE difficulty = "easy" -> 2
    [] difficulty = "normal" -> 2
    [] difficulty = "hard" -> 3
    [] difficulty = "nightmare" -> 8
    [] OTHER -> 2

\* C14: the cell the strategic step of makeAIPlacement returns has a safe-piece
\* count of at least minSafe if some empty cell has one, and the maximum safe-piece
\* count of the empty cells otherwise
C14_StrategicCellMeetsThresholdOrMax ==
  (ai.call \in {"makeAIPlacement", "makeAIMove"} /\ ai.placementBranch = "strategic") =>
    LET cells == emptyCells(ai.input.board)
        threshold == minSafe(ai.input.difficulty)
        returned == safePieceCount(ai.input, cellOf(ai.placement))
    IN IF \E cell \in cells : safePieceCount(ai.input, cell) >= threshold
       THEN returned >= threshold
       ELSE \A cell \in cells : safePieceCount(ai.input, cell) <= returned

\* the strategic step has returned a cell that meets the threshold where another
\* empty cell does not
C14_Witness ==
  /\ ai.call = "makeAIPlacement"
  /\ ai.placementBranch = "strategic"
  /\ safePieceCount(ai.input, cellOf(ai.placement)) >= minSafe(ai.input.difficulty)
  /\ \E cell \in emptyCells(ai.input.board) :
       safePieceCount(ai.input, cell) < minSafe(ai.input.difficulty)

\* the game of a board is not over: no winning line and an empty cell
notOver(board) == ~winningLineExists(board) /\ emptyCells(board) # {}

\* C15: a move returned by makeAIMove or by search for a non-terminal state has no
\* placement only if the state has no staged piece, and no piece to give only if no
\* piece remains available
C15_MoveIsComplete ==
  /\ (ai.call = "makeAIMove" /\ notOver(ai.input.board)) =>
       /\ ai.placement = null => ai.input.pieceToPlace = null
       /\ ai.pieceToGive = null => available(ai.input) = {}
  /\ (driver = "search" /\ run.pc = "returned" /\ notOver(root.state.board)) =>
       /\ run.bestMove.place = noPlace => root.state.stagedPiece = null
       /\ run.bestMove.give = null => root.state.availablePieces = <<>>

\* some node of the tree has been expanded until no untried move is left
expandedToTheEnd ==
  \E n \in 1..Len(nodes) : nodes[n].children # <<>> /\ nodes[n].untriedMoves = <<>>

\* C16: in no run of search is expand invoked on a node whose list of untried moves
\* is empty: the error "Cannot expand fully expanded node" is never raised
C16_ExpandNeverThrows ==
  driver = "search" => run.error # expandError

\* an iteration has gone through selection and expansion on a tree in which a node
\* that is not terminal has no untried move left
C16_Witness ==
  /\ driver = "search"
  /\ run.pc = "simulate"
  /\ expandedToTheEnd
  /\ isFullyExpanded(root) /\ ~isTerminal(root)
  /\ run.node # 1

\* the nodes from node n up to the root
RECURSIVE pathToRoot(_)
pathToRoot(n) == IF n = 0 THEN {} ELSE {n} \cup pathToRoot(nodes[n].parent)

\* the visits and wins of node n
counters(tree, n) == <<tree[n].visits, tree[n].wins>>

\* the step ends an iteration: the playout is over and its result is backpropagated
endsIteration == driver = "search" /\ run.pc = "simulate" /\ run'.pc = "iterate"

\* the step begins an iteration: selection and expansion
beginsIteration == driver = "search" /\ run.pc = "iterate" /\ run'.pc = "simulate"

\* C17: an iteration adds 1 to the visits and the playout's result to the wins of
\* every node on the path from the simulated node up to the root and leaves the
\* counters of every other node as they were (a node created by the expansion
\* starts at zero); after k completed iterations the root has k visits
C17_BackpropagationAlongPath ==
  [][/\ endsIteration =>
         /\ Len(nodes') = Len(nodes)
         /\ \A n \in 1..Len(nodes) :
              IF n \in pathToRoot(run.node)
              THEN counters(nodes', n) = <<nodes[n].visits + 1, nodes[n].wins + run'.result>>
              ELSE counters(nodes', n) = counters(nodes, n)
         /\ nodes'[1].visits = run'.iteration
         /\ run'.iteration = run.iteration + 1
     /\ beginsIteration =>
         /\ \A n \in 1..Len(nodes) : counters(nodes', n) = counters(nodes, n)
         /\ \A n \in (Len(nodes) + 1)..Len(nodes') : counters(nodes', n) = <<0, 0>>
    ]_vars

\* an iteration has backpropagated from a node below the root while the tree holds a
\* node off that path
C17_Witness ==
  /\ driver = "search"
  /\ run.pc = "iterate"
  /\ run.iteration >= 3
  /\ run.node # 1
  /\ nodes[run.node].visits >= 1
  /\ \E n \in 1..Len(nodes) : n \notin pathToRoot(run.node) /\ nodes[n].visits >= 1

\* the settings are all that the engine object holds
holdsConfigOnly ==
  DOMAIN config =
    {"maxIterations", "maxDepth", "explorationConstant", "moveSortStrategy", "playoutDepth"}

ScanOrder ==
  [k \in 1..10 |->
     IF k <= 4 THEN [i \in 1..4 |-> <<k - 1, i - 1>>]
     ELSE IF k <= 8 THEN [i \in 1..4 |-> <<i - 1, k - 5>>]
     ELSE IF k = 9 THEN [i \in 1..4 |-> <<i - 1, i - 1>>]
     ELSE [i \in 1..4 |-> <<i - 1, 4 - i>>]]

\* the cells of a line of the scan
cellsOf(line) == {line[i] : i \in 1..4}

\* the lines of the scan that win on a board, by their place in the scan
winningInScan(board) == {k \in 1..10 : lineComplete(board, cellsOf(ScanOrder[k]))}

\* the row 0 of a board otherwise empty
row0 == {<<0, c>> : c \in Idx}

\* C20: getWinningLine(board) is none exactly when checkWinCondition(board) is false,
\* and otherwise the four coordinates of the first winning line of the scan (rows
\* 0..3, columns 0..3, main diagonal, anti-diagonal); the line the app shows is that
\* line; while only cells of row 0 hold pieces the game is won exactly when all four
\* hold pieces that share an attribute, and then the line is row 0
C20_FirstWinningLineOfScan ==
  driver = "line" =>
    LET board == app.board
        wins == winningInScan(board)
    IN /\ (getWinningLine(board) = noLine) <=> ~checkWinCondition(board)
       /\ wins = {} => getWinningLine(board) = noLine
       /\ wins # {} =>
            getWinningLine(board) = ScanOrder[CHOOSE k \in wins : \A j \in wins : k <= j]
       /\ app.gameState = "won" => app.winningLine = getWinningLine(board)
       /\ app.gameState # "won" => app.winningLine = noLine
       /\ occupied(board) \subseteq row0 =>
            /\ app.gameState = "won" =>
                 /\ occupied(board) = row0
                 /\ app.winningLine = <<<<0, 0>>, <<0, 1>>, <<0, 2>>, <<0, 3>>>>
            /\ (occupied(board) = row0 /\ lineComplete(board, row0)) =>
                 app.gameState = "won"

\* the last placement has completed row 0 and column 0 at once, and the line shown
\* is row 0
C20_Witness ==
  /\ driver = "line"
  /\ app.gameState = "won"
  /\ Cardinality(winningInScan(app.board)) = 2
  /\ lineComplete(app.board, row0)
  /\ app.winningLine = ScanOrder[1]

(***************************************************************************)
(* The statements checked of the piece catalog.                            *)
(***************************************************************************)
\* every piece there can be: one value for each of the four attributes
PieceCombinations ==
  [height : {"tall", "short"}, color : {"light", "dark"},
   shape : {"square", "round"}, top : {"solid", "hollow"}]

\* the pieces of the engine's state: on the board, staged, and available
piecesOf(s) ==
  onBoard(s.board) \cup {s.availablePieces[k] : k \in 1..Len(s.availablePieces)}
    \cup (IF s.stagedPiece = null THEN {} ELSE {s.stagedPiece})

\* C21: generateAllPieces returns 16 pieces, no two of them equal under
\* arePiecesEqual, one for every combination of the four attributes; two pieces are
\* equal under arePiecesEqual exactly when their four attributes agree; so the pieces
\* of a game are those of the catalog, and a give takes exactly the given piece out
\* of the available pieces
C21_SixteenDistinctPieces ==
  /\ Len(generateAllPieces) = 16
  /\ \A i \in 1..16 : \A j \in 1..16 :
       arePiecesEqual(generateAllPieces[i], generateAllPieces[j]) <=> i = j
  /\ {generateAllPieces[i] : i \in 1..16} = PieceCombinations
  /\ \A p \in PieceCombinations : \A q \in PieceCombinations :
       arePiecesEqual(p, q) <=> \A a \in Attributes : p[a] = q[a]
  /\ driver = "engine" =>
       /\ piecesOf(state) = PieceCombinations
       /\ state.stagedPiece # before.stagedPiece /\ state.stagedPiece # null =>
            Len(state.availablePieces) = Len(before.availablePieces) - 1

\* a piece has been given while the piece that differs from it in the top only is
\* still available
C21_Witness ==
  /\ driver = "engine"
  /\ move.give # null
  /\ state.stagedPiece = move.give
  /\ \E k \in 1..Len(state.availablePieces) :
       /\ \A a \in Attributes \ {"top"} : state.availablePieces[k][a] = move.give[a]
       /\ state.availablePieces[k].top # move.give.top

\* C22: at nightmare (minSafePieces 8), with two pieces on the board, a staged
\* piece and the other 13 available, some empty cell has at least 8 safe pieces, and
\* the cell the strategic step returns has at least 8: the step does not fall back to
\* the cells of the highest count below the threshold
C22_OpeningMeetsThreshold ==
  driver = "opening" =>
    /\ Len(ai.input.availablePieces) = 13
    /\ \E cell \in emptyCells(ai.input.board) : safePieceCount(ai.input, cell) >= 8
    /\ ai.call = "makeAIPlacement" =>
         /\ ai.placementBranch = "strategic"
         /\ safePieceCount(ai.input, cellOf(ai.placement)) >= 8

\* the strategic step has returned a cell with 8 safe pieces or more on a board where
\* the staged piece on another cell would leave fewer than 8
C22_Witness ==
  /\ driver = "opening"
  /\ ai.call = "makeAIPlacement"
  /\ ai.placementBranch = "strategic"
  /\ safePieceCount(ai.input, cellOf(ai.placement)) >= 8
  /\ \E cell \in emptyCells(ai.input.board) : safePieceCount(ai.input, cell) < 8

\* C23: at easy, normal and hard the placement step can skip the win detection, so
\* that for some draws a cell that does not win is returned although a winning cell
\* exists, and for some draws it takes the random branch; at nightmare it does
\* neither for any draws
C23_MissAndRandomBelowNightmare ==
  (driver = "ai" /\ ai.call = "none" /\ ai.input.pieceToPlace # null
     /\ ai.input.difficulty # "undefined") =>
    LET results == makeAIPlacementResults(ai.input)
        winning == winningCells(ai.input.board, ai.input.pieceToPlace)
        losing == emptyCells(ai.input.board) \ winning
        misses == \E r \in results : r.placement # null /\ cellOf(r.placement) \in losing
        random == \E r \in results : r.branch = "random"
    IN IF ai.input.difficulty = "nightmare"
       THEN /\ ~random
            /\ winning # {} => ~misses
       ELSE /\ emptyCells(ai.input.board) # {} => random
            /\ (winning # {} /\ losing # {}) => misses

\* the depth of node n: the number of its ancestors
depthOf(n) == Cardinality(pathToRoot(n)) - 1

\* no node of the tree lies deeper than maxDepth
withinMaxDepth == \A n \in 1..Len(nodes) : depthOf(n) <= config.maxDepth

\* C24: during search a node receives a new child only when it is not terminal, has
\* been visited at least once and has a depth below maxDepth; the first iteration
\* adds no node, every iteration adds at most one node, and no node of the tree ever
\* has a depth greater than maxDepth
C24_ExpansionGuard ==
  /\ [](driver = "search" => withinMaxDepth)
  /\ [][driver = "search" =>
          /\ Len(nodes') \in {Len(nodes), Len(nodes) + 1}
          /\ run.iteration = 0 => Len(nodes') = Len(nodes)
          /\ ~beginsIteration => Len(nodes') = Len(nodes)
          /\ Len(nodes') = Len(nodes) + 1 =>
               LET parent == nodes'[Len(nodes')].parent
               IN /\ parent \in 1..Len(nodes)
                  /\ ~nodes[parent].state.gameOver
                  /\ nodes[parent].visits >= 1
                  /\ depthOf(parent) < config.maxDepth
                  /\ nodes'[parent].children = Append(nodes[parent].children, Len(nodes'))
          /\ \A n \in 1..Len(nodes) : Len(nodes'[n].children) > Len(nodes[n].children) =>
               Len(nodes') = Len(nodes) + 1 /\ n = nodes'[Len(nodes')].parent
       ]_vars

\* an iteration plays out from a node at depth maxDepth that has been visited, is not
\* terminal and has an untried move: the depth alone keeps it from being expanded
C24_Witness ==
  /\ driver = "search"
  /\ run.pc = "simulate"
  /\ depthOf(run.node) = config.maxDepth
  /\ nodes[run.node].visits >= 1
  /\ ~isTerminal(nodes[run.node])
  /\ ~isFullyExpanded(nodes[run.node])

(***************************************************************************)
(* The statements checked of the end of a game.                            *)
(***************************************************************************)
\* the engine has applied a move whose placement completes a line or fills the board
placementEndsGame ==
  /\ driver = "engine"
  /\ move.place # noPlace
  /\ before.stagedPiece # null
  /\ state.board = [before.board EXCEPT ![move.place[1]][move.place[2]] = before.stagedPiece]
  /\ winningLineExists(state.board) \/ emptyCells(state.board) = {}

\* C25: when the placement of a legal move completes a winning line or fills the
\* board, the state applyMove and applyMoveToState return is terminal, the piece to
\* give is ignored (the available pieces are as before, nothing is staged), the
\* current player is unchanged, and the winner is the player who moved if a line is
\* complete, also on a full board, and none if the board is full without a line
C25_EndingPlacement ==
  placementEndsGame =>
    /\ state.gameOver
    /\ state.stagedPiece = null
    /\ state.availablePieces = before.availablePieces
    /\ state.currentPlayer = before.currentPlayer
    /\ state.winner = IF winningLineExists(state.board) THEN before.currentPlayer
                      ELSE noWinner

\* a placement has won the game and the piece the move gives is still available
C25_Witness ==
  /\ placementEndsGame
  /\ winningLineExists(state.board)
  /\ move.give # null
  /\ \E k \in 1..Len(state.availablePieces) : state.availablePieces[k] = move.give

\* C26: whenever the host's game state is 'won', the recorded winner is the player
\* who placed the piece that completed the line, whether the placement was a human
\* click, a basic-AI move or an MCTS move
C26_WinnerIsPlacer ==
  (driver = "host" /\ app.gameState = "won") => app.winner = placer

\* the host state executeMCTSMove took the search's snapshot from
hostOfSearch == appOf(root.state, TRUE, TRUE, "mcts")

C28_AIGameEnds ==
  /\ <>(app.gameState \in {"won", "tie"})
  /\ [](app.gameState = "playing" /\ isCurrentPlayerAI(app) => timer.timeout # <<>>)
  /\ [][piecesOnBoard(app'.board)
          = piecesOnBoard(app.board) + (IF event'.placement # null THEN 1 ELSE 0)]_vars

\* a game of two AIs has ended in a tie and no timeout is left
C28_Witness ==
  /\ driver = "auto"
  /\ app.player1AI /\ app.player2AI
  /\ app.gameState = "tie"
  /\ piecesOnBoard(app.board) = 16
  /\ event.kind = "applyAIMove"
  /\ timer.timeout = <<>>

\* C29: from a state whose game state is 'won' or 'tie', no step but startNewGame
\* (no cell click, no piece selection, no timeout firing) changes the board, the
\* available pieces, the staged piece, the current player or the winner
C29_FrozenAfterGameOver ==
  [][(driver = "timer" /\ app.gameState \in {"won", "tie"} /\ event'.kind # "startNewGame")
       => /\ app'.board = app.board
          /\ app'.availablePieces = app.availablePieces
          /\ app'.stagedPiece = app.stagedPiece
          /\ app'.currentPlayer = app.currentPlayer
          /\ app'.winner = app.winner]_vars

\* the game is won, the phase is 'give' with pieces and empty cells left, the
\* current player is AI-controlled, and a checkbox was clicked after the win
C29_Witness ==
  /\ driver = "timer"
  /\ app.gameState = "won"
  /\ app.gamePhase = "give"
  /\ Len(app.availablePieces) > 0
  /\ emptyCells(app.board) # {}
  /\ isCurrentPlayerAI(app)
  /\ event.kind = "setPlayerAI"

\* C30: while the current player is AI-controlled and the timeout of its AI move is
\* set, a human cell click or piece selection changes neither the board, the
\* available pieces, the staged piece, the current player nor the phase
C30_OnlyTheAIMovesForTheAI ==
  [][(/\ driver = "timer"
      /\ isCurrentPlayerAI(app)
      /\ timer.timeout # <<>>
      /\ event'.kind \in {"handleCellClick", "handlePieceSelect"})
       => /\ app'.board = app.board
          /\ app'.availablePieces = app.availablePieces
          /\ app'.stagedPiece = app.stagedPiece
          /\ app'.currentPlayer = app.currentPlayer
          /\ app'.gamePhase = app.gamePhase]_vars

(***************************************************************************)
(* The statements checked of the tree's bookkeeping.                       *)
(***************************************************************************)
range(seq) == {seq[k] : k \in 1..Len(seq)}

childMoves(n) == {nodes[c].move : c \in range(nodes[n].children)}

\* C31: at every point of search, for every node of the tree, the moves of its
\* children and its untried moves are disjoint and together are exactly the legal
\* moves of its state, no move is expanded twice, and each child's state is the
\* result of applying the child's move to the node's state
C31_ChildrenAndUntried ==
  driver = "search" =>
    \A n \in 1..Len(nodes) :
      LET legal == MCTSNode_getLegalMoves(nodes[n].state)
      IN /\ childMoves(n) \cap range(nodes[n].untriedMoves) = {}
         /\ childMoves(n) \cup range(nodes[n].untriedMoves) = range(legal)
         /\ Cardinality(childMoves(n)) = Len(nodes[n].children)
         /\ Len(nodes[n].children) + Len(nodes[n].untriedMoves) = Len(legal)
         /\ \A c \in range(nodes[n].children) :
              /\ nodes[c].parent = n
              /\ nodes[c].state = MCTSNode_applyMove(nodes[n].state, nodes[c].move)

\* the root has two children, and a child of the root has a child of its own and
\* an untried move left
C31_Witness ==
  /\ driver = "search"
  /\ Len(nodes) > 0
  /\ Len(nodes[1].children) >= 2
  /\ \E n \in 2..Len(nodes) :
       Len(nodes[n].children) >= 1 /\ Len(nodes[n].untriedMoves) >= 1


\* the sum of the visits of the nodes of a sequence of node indices
RECURSIVE visitsOf(_)
visitsOf(children) ==
  IF children = <<>> THEN 0 ELSE nodes[Head(children)].visits + visitsOf(Tail(children))

\* an iteration of search has ended: the tree is as backpropagate has left it
iterationOver == driver = "search" /\ run.pc \in {"iterate", "returned", "threw"}

\* C32: at the end of every iteration of search every node but the root has at
\* least one visit, the wins of every node lie between 0 and its visits (wins are
\* counted in halves of a point, a win being Win halves), and the visits of every
\* node are at least the sum of the visits of its children, so that no child is
\* unvisited and the parent of every child has a visit for ln(parentVisits)/visits
C32_VisitsAndWins ==
  iterationOver =>
    \A n \in 1..Len(nodes) :
      /\ n # 1 => nodes[n].visits >= 1
      /\ 0 <= nodes[n].wins
      /\ nodes[n].wins <= Win * nodes[n].visits
      /\ nodes[n].visits >= visitsOf(nodes[n].children)
      /\ \A c \in range(nodes[n].children) :
           nodes[c].visits >= 1 /\ nodes[nodes[c].parent].visits >= 1

\* iterations have ended with a tree of three levels in which a node has more visits
\* than its children together and a node has wins strictly between 0 and its visits
C32_Witness ==
  /\ iterationOver
  /\ run.iteration >= 4
  /\ \E n \in 2..Len(nodes) :
       /\ nodes[n].children # <<>>
       /\ nodes[n].visits > visitsOf(nodes[n].children)
  /\ \E n \in 1..Len(nodes) : 0 < nodes[n].wins /\ nodes[n].wins < Win * nodes[n].visits


\* the call of search has come to its end: it has returned a move or thrown
searchOver == driver = "search" /\ run.pc \in {"returned", "threw"}

\* the node the selection descent of the next iteration ends at, 0 if it throws
selectedNode == select(nodes, 1, config.explorationConstant)

\* the most moves a playout from state s can apply
playoutBound(s) ==
  IF config.playoutDepth < emptyCount(s) + 1 THEN config.playoutDepth ELSE emptyCount(s) + 1

\* the step applies a move of a playout
playoutStep == driver = "search" /\ run.pc = "simulate" /\ run'.pc = "simulate"

\* C33: search terminates for every config: every call comes to its end, and has
\* then performed exactly maxIterations iterations; every selection descent ends at
\* a node that is terminal or has untried moves; every playout applies at most
\* min(playoutDepth, number of empty cells of its start + 1) moves, each of which
\* places one piece or is the give of a state with no staged piece at the start of
\* the playout
C33_SearchTerminates ==
  /\ <>searchOver
  /\ [](searchOver => run.iteration = config.maxIterations)
  /\ [](driver = "search" /\ run.pc = "iterate" /\ run.iteration < config.maxIterations
          => /\ selectedNode # 0
             /\ \/ isTerminal(nodes[selectedNode])
                \/ nodes[selectedNode].untriedMoves # <<>>)
  /\ [](driver = "search" /\ run.pc = "simulate"
          => run.depth <= playoutBound(nodes[run.node].state))
  /\ [][playoutStep =>
          /\ run'.depth = run.depth + 1
          /\ \/ piecesOnBoard(run'.currentState.board)
                  = piecesOnBoard(run.currentState.board) + 1
             \/ /\ run.depth = 0
                /\ run.currentState.stagedPiece = null
                /\ run'.currentState.stagedPiece # null
                /\ run'.currentState.board = run.currentState.board]_vars

\* a playout from a state with no staged piece has applied one move more than the
\* state has empty cells, fewer than playoutDepth allows, and has ended the game
C33_Witness ==
  /\ driver = "search"
  /\ run.pc = "simulate"
  /\ nodes[run.node].state.stagedPiece = null
  /\ run.depth = emptyCount(nodes[run.node].state) + 1
  /\ run.depth < config.playoutDepth
  /\ run.currentState.gameOver


\* C34: the getLegalMoves of MCTSNode and the getLegalMoves of MCTSSearch list the
\* same moves in the same order for every state, and MCTSNode.applyMove and
\* MCTSSearch.applyMoveToState yield the same state for every state and every legal
\* move of it; the state a move has led to is the state either of them yields
C34_NodeAndSearchAgree ==
  driver = "engine" =>
    /\ MCTSNode_getLegalMoves(state) = MCTSSearch_getLegalMoves(state)
    /\ \A k \in 1..Len(MCTSNode_getLegalMoves(state)) :
         MCTSNode_applyMove(state, MCTSNode_getLegalMoves(state)[k])
           = applyMoveToState(state, MCTSSearch_getLegalMoves(state)[k])
    /\ move # noMove =>
         /\ state = MCTSNode_applyMove(before, move)
         /\ state = applyMoveToState(before, move)

\* a move has placed a piece and given the next one, and the state it has led to has
\* legal moves on several cells with several pieces to give
C34_Witness ==
  /\ driver = "engine"
  /\ move.place # noPlace
  /\ move.give # null
  /\ state.stagedPiece = move.give
  /\ Len(emptyCellsInOrder(state.board)) >= 2
  /\ Len(state.availablePieces) >= 2
  /\ Len(MCTSSearch_getLegalMoves(state)) >= 4


\* the number of times x occurs in a sequence
timesIn(seq, x) == Cardinality({k \in 1..Len(seq) : seq[k] = x})

\* two sequences hold the same elements with the same multiplicities
isPermutation(seq1, seq2) ==
  /\ Len(seq1) = Len(seq2)
  /\ \A x \in range(seq1) \cup range(seq2) : timesIn(seq1, x) = timesIn(seq2, x)

\* a pass of simulate's loop is about to sort the legal moves of the playout's state
sortsMoves == driver = "repeat" /\ run.pc = "simulate" /\ playoutGoesOn

\* the calls of sortMoves a pass of simulate's loop can make in this state, one for
\* each delivery of Math.random()
sortMovesCalls ==
  LET legal == MCTSSearch_getLegalMoves(run.currentState)
  IN {sortMovesCall(legal, run.currentState, config.moveSortStrategy, rs) :
        rs \in [1..drawsOfPlayoutMove(Len(legal), config.moveSortStrategy) -> Drawn]}

\* C35: for every strategy and every list of legal moves, the list sortMoves returns
\* is a permutation of the list it is given (the same moves with the same
\* multiplicities), and the list it is given is in its original order after the call
C35_SortMovesPermutes ==
  sortsMoves =>
    \A call \in sortMovesCalls :
      /\ isPermutation(call.returned, MCTSSearch_getLegalMoves(run.currentState))
      /\ call.moves = MCTSSearch_getLegalMoves(run.currentState)

\* sortMoves has returned three or more moves in another order than it was given them
C35_Witness ==
  /\ sortsMoves
  /\ Len(MCTSSearch_getLegalMoves(run.currentState)) >= 3
  /\ \E call \in sortMovesCalls : call.returned # call.moves


\* the board that results from the placement of move m in state s
boardAfterPlacement(s, m) ==
  IF m.place # noPlace /\ s.stagedPiece # null
  THEN [s.board EXCEPT ![m.place[1]][m.place[2]] = s.stagedPiece]
  ELSE s.board

\* the piece move m gives completes a winning line on some empty cell of the board
\* that results from the move's own placement
allowsImmediateWin(s, m) ==
  /\ m.give # null
  /\ \E cell \in emptyCells(boardAfterPlacement(s, m)) :
       winningLineExists([boardAfterPlacement(s, m) EXCEPT ![cell[1]][cell[2]] = m.give])

\* a pass of simulate's loop is about to sort the legal moves with sortMovesDefensive
sortsDefensively ==
  /\ driver = "search"
  /\ run.pc = "simulate"
  /\ playoutGoesOn
  /\ config.moveSortStrategy = "defensive"

\* C36: in the list the defensive strategy returns, every move whose given piece
\* allows the opponent an immediate win on the board that results from the move's
\* own placement comes after every move whose given piece does not
C36_DangerousGivesLast ==
  sortsDefensively =>
    LET sortedMoves == sortMovesCall(MCTSSearch_getLegalMoves(run.currentState),
                                     run.currentState, config.moveSortStrategy, <<>>).returned
    IN \A i \in 1..Len(sortedMoves), j \in 1..Len(sortedMoves) :
         /\ allowsImmediateWin(run.currentState, sortedMoves[i])
         /\ ~allowsImmediateWin(run.currentState, sortedMoves[j])
         => i > j

==============================================================================
